---- MODULE Spec2Model ----
(***************************************************************************)
(* A model of the quizgen pipeline (kunigitaj/quizgen): text segmentation, *)
(* topic-map coverage audit, request planning, sharding, the batch         *)
(* scheduler, the response normalizer, the assembler, the carving helper   *)
(* and the summary map and tree reduce.  Strings whose characters matter   *)
(* (custom ids, text lines) are sequences of one-character strings.        *)
(***************************************************************************)
EXTENDS Integers, Sequences, FiniteSets, TLC

VARIABLES
    \* ---- sharding (main._shard_requests, summary._shard_lines) ----
    sharder,        \* which function is applied
    requests,       \* its request list
    max_per_shard,  \* its count limit
    max_bytes,      \* its byte limit
    shard_result,   \* the returned list of shards
    shard_pc,       \* "input" before the call, "returned" after it
    \* ---- batch scheduler (main.run_questions_batch, run_topicmap_batch,
    \*      summary._run_batch_multi) ----
    runner,         \* "questions", "summary" or "topicmap"
    reqs,           \* the planned request list
    SHARD_SIZE,     \* BATCH_QUESTIONS_SHARD_SIZE / _SUMMARY_BATCH_SHARD_SIZE
    MAX_BYTES,      \* BATCH_QUESTIONS_MAX_BYTES / _SUMMARY_BATCH_MAX_BYTES
    BATCH_TIMEOUT_SECONDS,
    CANCEL_ON_TIMEOUT,
    shards,         \* the shards of reqs
    si,             \* 1-based index of the shard being processed
    pc,             \* position of the runner
    jobs,           \* the jobs submitted so far, in submission order
    elapsed,        \* seconds slept in the current wait_for_batch call
    combined,       \* Q_OUT lines / all_results, as custom ids
    final_written,  \* questions_final.json was written / all_results returned
    error,          \* the exception that ended the run, or "none"
    \* ---- topic map (main.run_topicmap_batch, build_batch) ----
    topic_map,      \* the parsed topic map: a sequence of units
    total_chunks,   \* len(chunks)
    tm_pc,          \* "parsed", then "saved" or "raised"
    topicmap_json,  \* data/topicmap.json was written
    QUESTION_TYPES_PER_TOPIC,
    QUESTION_TYPE_MULTIPLIER,
    planned,        \* the requests build_questions_requests_balanced returns
    plan_pc,        \* "input" before the call, "returned" after it
    \* ---- chunking (chunking.semantic_chunks) ----
    text,           \* the input text, as its lines
    max_chars,
    soft_min,
    chunks,         \* the returned chunks, each as its lines
    chunk_pc,       \* "input" before the call, "returned" after it
    \* ---- response normalizer (assemble.parse_batch_output) ----
    jsonl,          \* the output file: whether it exists, and its records
    payloads,       \* the returned list of payloads
    parse_pc,       \* "input", then "returned" or "raised"
    parse_error,    \* the exception that left parse_batch_output, or "none"
    \* ---- assembler (assemble.validate_and_fix) ----
    items,          \* the candidate items handed to validate_and_fix
    fixed,          \* the returned list of items
    asm_pc,         \* "input", then "returned" or "raised"
    asm_error,      \* the exception that left validate_and_fix, or "none"
    \* ---- carving helper (assemble._extract_json_object,
    \*      summary._carve_largest_object) ----
    carver,         \* which function is applied
    carve_text,     \* its argument, as its characters
    carved,         \* the returned span, NoSpan for None
    carve_pc,       \* "input" before the call, "returned" after it
    \* ---- summary map and tree reduce (summary.summarize_chunks_batch,
    \*      summary.merge_summaries_batch_tree) ----
    sum_fn,         \* which function is applied
    map_chunks,     \* chunks, the argument of summarize_chunks_batch
    micros,         \* the argument of merge_summaries_batch_tree
    fanin,          \* its fanin argument, 0 for None
    RETRY_MISSING,  \* _SUMMARY_MAP_RETRY_MISSING / _SUMMARY_REDUCE_RETRY_MISSING
    current,        \* the summaries of the current level
    groups,         \* the groups of the current level
    level,
    by_id,          \* by_idx (chunk index -> dict) / by_id (custom id -> payload)
    attempts,
    request_lines,  \* the lines handed to the running _run_batch_multi call
    batch_calls,    \* number of _run_batch_multi calls made
    sum_result,     \* the returned value
    sum_pc,         \* "input", "loop", "batch", then "returned" or "raised"
    sum_error       \* the exception that left the function, or "none"

shardVars == <<sharder, requests, max_per_shard, max_bytes, shard_result, shard_pc>>
schedVars == <<runner, reqs, SHARD_SIZE, MAX_BYTES, BATCH_TIMEOUT_SECONDS,
               CANCEL_ON_TIMEOUT, shards, si, pc, jobs, elapsed, combined,
               final_written, error>>
mapVars == <<topic_map, total_chunks, tm_pc, topicmap_json>>
planVars == <<QUESTION_TYPES_PER_TOPIC, QUESTION_TYPE_MULTIPLIER, planned, plan_pc>>
chunkVars == <<text, max_chars, soft_min, chunks, chunk_pc>>
parseVars == <<jsonl, payloads, parse_pc, parse_error>>
asmVars == <<items, fixed, asm_pc, asm_error>>
carveVars == <<carver, carve_text, carved, carve_pc>>
sumVars == <<sum_fn, map_chunks, micros, fanin, RETRY_MISSING, current, groups, level,
             by_id, attempts, request_lines, batch_calls, sum_result, sum_pc,
             sum_error>>
vars == <<shardVars, schedVars, mapVars, planVars, chunkVars, parseVars, asmVars,
         carveVars,
         sumVars>>

\* ------------------------------------------------------------------------
\* Bounds of the model
\* ------------------------------------------------------------------------
MaxReqs == 4
MaxSchedReqs == 3
MaxPolls == 3
MaxChunks == 3
MaxTopics == 2
MaxLines == 5
MaxRecords == 2
MaxChoices == 6
MaxDraws == 3
MaxCarveLen == 5
MaxSumChunks == 2
MaxLevels == 2

\* ------------------------------------------------------------------------
\* Generic helpers
\* ------------------------------------------------------------------------
SeqsUpTo(S, n) == UNION {[1..k -> S] : k \in 0..n}

RECURSIVE Concat(_)
Concat(ss) == IF ss = <<>> THEN <<>> ELSE Head(ss) \o Concat(Tail(ss))

RECURSIVE SumSeq(_)
SumSeq(s) == IF s = <<>> THEN 0 ELSE Head(s) + SumSeq(Tail(s))

Max2(a, b) == IF a >= b THEN a ELSE b

\* ------------------------------------------------------------------------
\* Requests and their serialized size
\* ------------------------------------------------------------------------
\* json.dumps({"custom_id": c, "method": "POST", "url": "/v1/responses",
\* "body": b}) + "\n" has 70 characters besides c and the dumped body.
EnvelopeBytes == 70

\* len((json.dumps(req, ensure_ascii=False) + "\n").encode("utf-8")) for an
\* ASCII request whose dumped body has req.body characters.
LineBytes(req) == EnvelopeBytes + Len(req.custom_id) + req.body

ShardBytes(shard) == SumSeq([i \in 1..Len(shard) |-> LineBytes(shard[i])])

\* ------------------------------------------------------------------------
\* main._shard_requests
\* ------------------------------------------------------------------------
\* line 233: the test that closes the current shard before adding req.
ShardRequestsCloses(cur, cur_bytes, s, mps, mb) ==
    (Len(cur) >= mps) \/ (mb # 0 /\ cur_bytes + s > mb)

\* lines 238-240: the tail of the function.
ShardTailMissing(shs, cur) == shs
ShardTail(shs, cur) == IF cur # <<>> THEN Append(shs, cur) ELSE shs

RECURSIVE ShardRequestsLoop(_, _, _, _, _, _, _)
ShardRequestsLoop(rs, mps, mb, i, shs, cur, cur_bytes) ==
    IF i > Len(rs) THEN ShardTail(shs, cur)
    ELSE LET req == rs[i]
             s == LineBytes(req)
         IN IF ShardRequestsCloses(cur, cur_bytes, s, mps, mb)
            THEN ShardRequestsLoop(rs, mps, mb, i + 1, Append(shs, cur), <<req>>, s)
            ELSE ShardRequestsLoop(rs, mps, mb, i + 1, shs, Append(cur, req),
                                   cur_bytes + s)

ShardRequests(rs, mps, mb) ==
    IF mps <= 0 THEN <<rs>>
    ELSE ShardRequestsLoop(rs, mps, mb, 1, <<>>, <<>>, 0)

\* ------------------------------------------------------------------------
\* summary._shard_lines
\* ------------------------------------------------------------------------
\* line 578
ShardLinesCloses(cur, cur_bytes, s, max_per, mb) ==
    (max_per > 0 /\ Len(cur) >= max_per) \/ (mb > 0 /\ cur_bytes + s > mb)

RECURSIVE ShardLinesLoop(_, _, _, _, _, _, _)
ShardLinesLoop(lines, max_per, mb, i, shs, cur, cur_bytes) ==
    IF i > Len(lines) THEN ShardTail(shs, cur)
    ELSE LET req == lines[i]
             s == LineBytes(req)
         IN IF ShardLinesCloses(cur, cur_bytes, s, max_per, mb)
            THEN ShardLinesLoop(lines, max_per, mb, i + 1, Append(shs, cur), <<req>>, s)
            ELSE ShardLinesLoop(lines, max_per, mb, i + 1, shs, Append(cur, req),
                                cur_bytes + s)

ShardLines(lines, max_per, mb) ==
    IF max_per <= 0 /\ mb <= 0 THEN <<lines>>
    ELSE ShardLinesLoop(lines, max_per, mb, 1, <<>>, <<>>, 0)

Shard(fn, rs, mps, mb) ==
    IF fn = "_shard_requests" THEN ShardRequests(rs, mps, mb)
    ELSE ShardLines(rs, mps, mb)

\* ------------------------------------------------------------------------
\* Specification of the sharding functions
\* ------------------------------------------------------------------------
Sharders == {"_shard_requests", "_shard_lines"}

\* Request i of a list carries the custom id "r<i>"; its dumped body has 10 or
\* 30 characters, so a line has 82 or 102 bytes.
BodySizes == {10, 30}
ShardDigits == <<"1", "2", "3", "4", "5", "6", "7", "8", "9">>
ShardInputs ==
    {[i \in 1..Len(bs) |-> [custom_id |-> <<"r", ShardDigits[i]>>, body |-> bs[i]]] :
        bs \in SeqsUpTo(BodySizes, MaxReqs)}
CountLimits == {-1, 0, 1, 2, 3}
ByteLimits == {-1, 0, 90, 170, 200}

ShardIdle ==
    /\ sharder = "_shard_requests"
    /\ requests = <<>>
    /\ max_per_shard = 0
    /\ max_bytes = 0
    /\ shard_result = <<>>
    /\ shard_pc = "idle"

ShardInit ==
    /\ sharder \in Sharders
    /\ requests \in ShardInputs
    /\ max_per_shard \in CountLimits
    /\ max_bytes \in ByteLimits
    /\ shard_result = <<>>
    /\ shard_pc = "input"

CallShard ==
    /\ shard_pc = "input"
    /\ shard_result' = Shard(sharder, requests, max_per_shard, max_bytes)
    /\ shard_pc' = "returned"
    /\ UNCHANGED <<sharder, requests, max_per_shard, max_bytes>>
    /\ UNCHANGED <<schedVars, mapVars, planVars, chunkVars, parseVars, asmVars, carveVars, sumVars>>

\* ------------------------------------------------------------------------
\* The external batch service (behind run_batch.submit_batch, retrieve_batch)
\* ------------------------------------------------------------------------
TerminalStatuses == {"completed", "failed", "cancelled", "expired"}

\* The job client.batches.create returns.
NewJob == [status |-> "validating", output_file_id |-> FALSE,
           error_file_id |-> FALSE, returned |-> "none", cancel_sent |-> FALSE]

\* The statuses a job can move to on the service's side.
ServerSuccessors(status) ==
    CASE status = "validating" -> {"in_progress", "failed", "cancelling"}
      [] status = "in_progress" -> {"completed", "expired", "cancelling"}
      [] status = "cancelling" -> {"cancelled"}
      [] OTHER -> {}

\* ------------------------------------------------------------------------
\* run_batch.wait_for_batch and download_output_or_error
\* ------------------------------------------------------------------------
\* line 53: the statuses on which wait_for_batch returns.
WaitReturns(status) ==
    status \in {"completed", "failed", "cancelled", "expired", "cancelling"}

\* line 63: the timeout test, in poll intervals.
TimedOut(timeout, waited) == timeout > 0 /\ waited > timeout

\* lines 82-93
DownloadKind(job) ==
    IF job.output_file_id THEN "output"
    ELSE IF job.error_file_id THEN "error"
    ELSE "RuntimeError"

\* ------------------------------------------------------------------------
\* main._assert_unique_custom_ids
\* ------------------------------------------------------------------------
\* TRUE when the call returns, FALSE when it raises ValueError.
AssertUniqueCustomIds(batch_requests) ==
    /\ \A i \in 1..Len(batch_requests) : batch_requests[i].custom_id # <<>>
    /\ \A i, j \in 1..Len(batch_requests) :
          i < j => batch_requests[i].custom_id # batch_requests[j].custom_id

\* ------------------------------------------------------------------------
\* main.run_questions_batch and summary._run_batch_multi
\* ------------------------------------------------------------------------
\* run_topicmap_batch (main.py 157-223) submits one job for its one request
\* file; up to the parsing of the output it is a run of a single shard.
Runners == {"questions", "summary", "topicmap"}

\* main.py line 364, summary.py line 625: the shard is a failure.
NotCompletedOnlyFailed(status) == status = "failed"
NotCompleted(status) == status # "completed"

\* The runner is at the top of its shard loop: the previous shard, if any, was
\* waited for and appended.
SubmitWhilePolling == pc \in {"loop", "polling"}
AtLoopHead == pc = "loop"

SetJob(j, job) == [jobs EXCEPT ![j] = job]

\* The custom ids of a shard's lines that the service's output file holds:
\* the lines at the positions in keep, in shard order.
RECURSIVE OutputIds(_, _, _)
OutputIds(shard, keep, i) ==
    IF i > Len(shard) THEN <<>>
    ELSE (IF i \in keep THEN <<shard[i].custom_id>> ELSE <<>>)
         \o OutputIds(shard, keep, i + 1)

\* main.py 326-336, summary.py 592-608: shard the requests, reset the output.
PlanShardsEmpty ==
    /\ pc = "start"
    /\ runner = "summary"
    /\ Len(reqs) = 0
    /\ pc' = "done"
    /\ UNCHANGED <<runner, reqs, SHARD_SIZE, MAX_BYTES, BATCH_TIMEOUT_SECONDS,
                   CANCEL_ON_TIMEOUT, shards, si, jobs, elapsed, combined,
                   final_written, error>>
    /\ UNCHANGED <<shardVars, mapVars, planVars, chunkVars, parseVars, asmVars, carveVars, sumVars>>

\* run_questions_batch with no shard at all: the loop is skipped and
\* parse_batch_output of the empty Q_OUT yields nothing (lines 401-404).
PlanShardsNone ==
    /\ pc = "start"
    /\ runner = "questions"
    /\ ShardRequests(reqs, SHARD_SIZE, MAX_BYTES) = <<>>
    /\ pc' = "raised"
    /\ error' = "RuntimeError"
    /\ UNCHANGED <<runner, reqs, SHARD_SIZE, MAX_BYTES, BATCH_TIMEOUT_SECONDS,
                   CANCEL_ON_TIMEOUT, shards, si, jobs, elapsed, combined,
                   final_written>>
    /\ UNCHANGED <<shardVars, mapVars, planVars, chunkVars, parseVars, asmVars, carveVars, sumVars>>

PlanShards ==
    /\ pc = "start"
    /\ LET shs == IF runner = "questions"
                  THEN ShardRequests(reqs, SHARD_SIZE, MAX_BYTES)
                  ELSE IF runner = "summary"
                  THEN ShardLines(reqs, SHARD_SIZE, MAX_BYTES)
                  ELSE <<reqs>>
       IN /\ runner = "summary" => Len(reqs) > 0
          /\ shs # <<>>
          /\ shards' = shs
    /\ si' = 1
    /\ pc' = "loop"
    /\ UNCHANGED <<runner, reqs, SHARD_SIZE, MAX_BYTES, BATCH_TIMEOUT_SECONDS,
                   CANCEL_ON_TIMEOUT, jobs, elapsed, combined, final_written,
                   error>>
    /\ UNCHANGED <<shardVars, mapVars, planVars, chunkVars, parseVars, asmVars, carveVars, sumVars>>

\* main.py 343: the guardrail rejects the shard before it is written.
SubmitRejected ==
    /\ AtLoopHead
    /\ si \in 1..Len(shards)
    /\ runner = "questions"
    /\ ~AssertUniqueCustomIds(shards[si])
    /\ pc' = "raised"
    /\ error' = "ValueError"
    /\ UNCHANGED <<runner, reqs, SHARD_SIZE, MAX_BYTES, BATCH_TIMEOUT_SECONDS,
                   CANCEL_ON_TIMEOUT, shards, si, jobs, elapsed, combined,
                   final_written>>
    /\ UNCHANGED <<shardVars, mapVars, planVars, chunkVars, parseVars, asmVars, carveVars, sumVars>>

\* main.py 343-352, summary.py 609-620: write the shard file and submit it.
SubmitShard ==
    /\ AtLoopHead
    /\ si \in 1..Len(shards)
    /\ runner = "questions" => AssertUniqueCustomIds(shards[si])
    /\ jobs' = Append(jobs, NewJob)
    /\ elapsed' = 0
    /\ pc' = "polling"
    /\ UNCHANGED <<runner, reqs, SHARD_SIZE, MAX_BYTES, BATCH_TIMEOUT_SECONDS,
                   CANCEL_ON_TIMEOUT, shards, si, combined, final_written, error>>
    /\ UNCHANGED <<shardVars, mapVars, planVars, chunkVars, parseVars, asmVars, carveVars, sumVars>>

\* The service moves a job on; the result files exist once the job is terminal.
ServerStep ==
    /\ \E j \in 1..Len(jobs) :
         \E s \in ServerSuccessors(jobs[j].status) :
            \E out, err \in BOOLEAN :
               /\ s \notin TerminalStatuses => (~out /\ ~err)
               /\ jobs' = SetJob(j, [jobs[j] EXCEPT !.status = s,
                                                    !.output_file_id = out,
                                                    !.error_file_id = err])
    /\ UNCHANGED <<runner, reqs, SHARD_SIZE, MAX_BYTES, BATCH_TIMEOUT_SECONDS,
                   CANCEL_ON_TIMEOUT, shards, si, pc, elapsed, combined,
                   final_written, error>>
    /\ UNCHANGED <<shardVars, mapVars, planVars, chunkVars, parseVars, asmVars, carveVars, sumVars>>

\* wait_for_batch, one turn of the loop that ends in time.sleep (line 69).
PollSleep ==
    /\ pc = "polling"
    /\ ~WaitReturns(jobs[Len(jobs)].status)
    /\ ~TimedOut(BATCH_TIMEOUT_SECONDS, elapsed)
    /\ elapsed < MaxPolls
    /\ elapsed' = elapsed + 1
    /\ UNCHANGED <<runner, reqs, SHARD_SIZE, MAX_BYTES, BATCH_TIMEOUT_SECONDS,
                   CANCEL_ON_TIMEOUT, shards, si, pc, jobs, combined,
                   final_written, error>>
    /\ UNCHANGED <<shardVars, mapVars, planVars, chunkVars, parseVars, asmVars, carveVars, sumVars>>

\* wait_for_batch lines 63-67: the timeout, with the optional cancel.
PollTimeout ==
    /\ pc = "polling"
    /\ ~WaitReturns(jobs[Len(jobs)].status)
    /\ TimedOut(BATCH_TIMEOUT_SECONDS, elapsed)
    /\ jobs' = SetJob(Len(jobs), [jobs[Len(jobs)] EXCEPT
                                     !.cancel_sent = CANCEL_ON_TIMEOUT])
    /\ pc' = "raised"
    /\ error' = "TimeoutError"
    /\ UNCHANGED <<runner, reqs, SHARD_SIZE, MAX_BYTES, BATCH_TIMEOUT_SECONDS,
                   CANCEL_ON_TIMEOUT, shards, si, elapsed, combined,
                   final_written>>
    /\ UNCHANGED <<shardVars, mapVars, planVars, chunkVars, parseVars, asmVars, carveVars, sumVars>>

\* Ctrl-C while wait_for_batch polls, handled without any cancel.
InterruptNoCancel ==
    /\ pc = "polling"
    /\ pc' = "raised"
    /\ error' = "KeyboardInterrupt"
    /\ UNCHANGED <<runner, reqs, SHARD_SIZE, MAX_BYTES, BATCH_TIMEOUT_SECONDS,
                   CANCEL_ON_TIMEOUT, shards, si, jobs, elapsed, combined,
                   final_written>>
    /\ UNCHANGED <<shardVars, mapVars, planVars, chunkVars, parseVars, asmVars, carveVars, sumVars>>

\* Ctrl-C while wait_for_batch polls: run_questions_batch (lines 356-360) and
\* run_topicmap_batch (lines 167-171) cancel when configured and re-raise;
\* _run_batch_multi does not catch it.
Interrupt ==
    /\ pc = "polling"
    /\ jobs' = SetJob(Len(jobs), [jobs[Len(jobs)] EXCEPT
                  !.cancel_sent = (runner \in {"questions", "topicmap"}
                                   /\ CANCEL_ON_TIMEOUT)])
    /\ pc' = "raised"
    /\ error' = "KeyboardInterrupt"
    /\ UNCHANGED <<runner, reqs, SHARD_SIZE, MAX_BYTES, BATCH_TIMEOUT_SECONDS,
                   CANCEL_ON_TIMEOUT, shards, si, elapsed, combined,
                   final_written>>
    /\ UNCHANGED <<shardVars, mapVars, planVars, chunkVars, parseVars, asmVars, carveVars, sumVars>>

\* wait_for_batch returns a job that is not completed: the shard's error file
\* is shown when there is one and the run raises (main.py 364-374, summary.py
\* 625-633).
ReturnNotCompleted ==
    /\ pc = "polling"
    /\ LET job == jobs[Len(jobs)]
       IN /\ WaitReturns(job.status)
          /\ NotCompleted(job.status)
          /\ jobs' = SetJob(Len(jobs), [job EXCEPT !.returned = job.status])
    /\ pc' = "raised"
    /\ error' = "RuntimeError"
    /\ UNCHANGED <<runner, reqs, SHARD_SIZE, MAX_BYTES, BATCH_TIMEOUT_SECONDS,
                   CANCEL_ON_TIMEOUT, shards, si, elapsed, combined,
                   final_written>>
    /\ UNCHANGED <<shardVars, mapVars, planVars, chunkVars, parseVars, asmVars, carveVars, sumVars>>

\* The job passed the status test but has no output file (main.py 376-382,
\* summary.py 635-642, run_batch.py 85-93).
ReturnNoOutput ==
    /\ pc = "polling"
    /\ LET job == jobs[Len(jobs)]
       IN /\ WaitReturns(job.status)
          /\ ~NotCompleted(job.status)
          /\ DownloadKind(job) # "output"
          /\ jobs' = SetJob(Len(jobs), [job EXCEPT !.returned = job.status])
    /\ pc' = "raised"
    /\ error' = "RuntimeError"
    /\ UNCHANGED <<runner, reqs, SHARD_SIZE, MAX_BYTES, BATCH_TIMEOUT_SECONDS,
                   CANCEL_ON_TIMEOUT, shards, si, elapsed, combined,
                   final_written>>
    /\ UNCHANGED <<shardVars, mapVars, planVars, chunkVars, parseVars, asmVars, carveVars, sumVars>>

\* The shard's output is appended and the loop goes to the next shard
\* (main.py 384-396, summary.py 644-658).
ReturnOutputNext ==
    /\ pc = "polling"
    /\ si < Len(shards)
    /\ LET job == jobs[Len(jobs)]
       IN /\ WaitReturns(job.status)
          /\ ~NotCompleted(job.status)
          /\ DownloadKind(job) = "output"
          /\ jobs' = SetJob(Len(jobs), [job EXCEPT !.returned = job.status])
    /\ \E keep \in SUBSET (1..Len(shards[si])) :
          combined' = combined \o OutputIds(shards[si], keep, 1)
    /\ si' = si + 1
    /\ pc' = "loop"
    /\ UNCHANGED <<runner, reqs, SHARD_SIZE, MAX_BYTES, BATCH_TIMEOUT_SECONDS,
                   CANCEL_ON_TIMEOUT, shards, elapsed, final_written, error>>
    /\ UNCHANGED <<shardVars, mapVars, planVars, chunkVars, parseVars, asmVars, carveVars, sumVars>>

\* The last shard's output is appended and the run ends: run_questions_batch
\* parses the combined file and writes the final corpus, or raises when nothing
\* parsed (main.py 398-409); _run_batch_multi returns all_results (660-661);
\* run_topicmap_batch raises when nothing parsed (195-200) and goes on to the
\* audit of the parsed map otherwise.
ReturnOutputLast ==
    /\ pc = "polling"
    /\ si = Len(shards)
    /\ LET job == jobs[Len(jobs)]
       IN /\ WaitReturns(job.status)
          /\ ~NotCompleted(job.status)
          /\ DownloadKind(job) = "output"
          /\ jobs' = SetJob(Len(jobs), [job EXCEPT !.returned = job.status])
    /\ \E keep \in SUBSET (1..Len(shards[si])) :
          /\ combined' = combined \o OutputIds(shards[si], keep, 1)
          /\ \E parsed \in BOOLEAN :
                /\ parsed => combined' # <<>>
                /\ IF runner \in {"questions", "topicmap"} /\ ~parsed
                   THEN /\ pc' = "raised"
                        /\ error' = "RuntimeError"
                        /\ UNCHANGED final_written
                   ELSE /\ pc' = "done"
                        /\ final_written' = (runner = "questions")
                        /\ UNCHANGED error
    /\ UNCHANGED <<runner, reqs, SHARD_SIZE, MAX_BYTES, BATCH_TIMEOUT_SECONDS,
                   CANCEL_ON_TIMEOUT, shards, si, elapsed>>
    /\ UNCHANGED <<shardVars, mapVars, planVars, chunkVars, parseVars, asmVars, carveVars, sumVars>>

\* ------------------------------------------------------------------------
\* Specification of the scheduler
\* ------------------------------------------------------------------------
SchedIds == {<<"a">>, <<"b">>}
SchedRequests == [custom_id : SchedIds, body : {10}]
SchedShardSizes == {0, 1, 2}
SchedByteLimits == {0, 170}
SchedTimeouts == {0, 1}

SchedIdle ==
    /\ runner = "questions"
    /\ reqs = <<>>
    /\ SHARD_SIZE = 0
    /\ MAX_BYTES = 0
    /\ BATCH_TIMEOUT_SECONDS = 0
    /\ CANCEL_ON_TIMEOUT = FALSE
    /\ shards = <<>>
    /\ si = 0
    /\ pc = "idle"
    /\ jobs = <<>>
    /\ elapsed = 0
    /\ combined = <<>>
    /\ final_written = FALSE
    /\ error = "none"

\* save_topicmap_batch_input writes a single request; the shard limits do not
\* bear on run_topicmap_batch.
TopicmapRequests == {<<[custom_id |-> <<"a">>, body |-> 10]>>}

SchedInit ==
    /\ runner \in Runners
    /\ reqs \in IF runner = "topicmap" THEN TopicmapRequests
                ELSE SeqsUpTo(SchedRequests, MaxSchedReqs)
    /\ SHARD_SIZE \in IF runner = "topicmap" THEN {0} ELSE SchedShardSizes
    /\ MAX_BYTES \in IF runner = "topicmap" THEN {0} ELSE SchedByteLimits
    /\ BATCH_TIMEOUT_SECONDS \in SchedTimeouts
    /\ CANCEL_ON_TIMEOUT \in BOOLEAN
    /\ shards = <<>>
    /\ si = 0
    /\ pc = "start"
    /\ jobs = <<>>
    /\ elapsed = 0
    /\ combined = <<>>
    /\ final_written = FALSE
    /\ error = "none"

\* ------------------------------------------------------------------------
\* Topic maps
\* ------------------------------------------------------------------------
\* A topic map is a sequence of units [unit_id, topics]; a topic is
\* [topic_id, chunk_span], chunk_span = <<start, end>>.

\* The topics of all units, in the order the loops of main.py 136-137 and
\* build_batch.py 75-77 visit them, each with its unit's id.
RECURSIVE TopicsOf(_)
TopicsOf(tm) ==
    IF tm = <<>> THEN <<>>
    ELSE [k \in 1..Len(Head(tm).topics) |->
             [unit_id |-> Head(tm).unit_id,
              topic_id |-> Head(tm).topics[k].topic_id,
              chunk_span |-> Head(tm).topics[k].chunk_span]]
         \o TopicsOf(Tail(tm))

\* ------------------------------------------------------------------------
\* main._audit_topicmap_coverage
\* ------------------------------------------------------------------------
\* lines 138-140: the counts after one more span; seen is the dict seen_counts
\* as a function on the indices seen so far.
AddSpan(seen, s, e) ==
    [i \in (DOMAIN seen) \cup (s..e) |->
        (IF i \in DOMAIN seen THEN seen[i] ELSE 0) + (IF i \in s..e THEN 1 ELSE 0)]

RECURSIVE SeenCounts(_, _)
SeenCounts(topics, seen) ==
    IF topics = <<>> THEN seen
    ELSE SeenCounts(Tail(topics),
                    AddSpan(seen, Head(topics).chunk_span[1], Head(topics).chunk_span[2]))

\* line 141
MissingFromOne(seen, n) == {i \in 1..(n - 1) : i \notin DOMAIN seen}
Missing(seen, n) == {i \in 0..(n - 1) : i \notin DOMAIN seen}

\* line 142
Overlaps(seen) == {i \in DOMAIN seen : seen[i] > 1}

AuditTopicmapCoverage(tm, n) ==
    LET seen == SeenCounts(TopicsOf(tm), <<>>)
    IN [missing |-> Missing(seen, n), overlaps |-> Overlaps(seen)]

\* A run that writes topicmap.json before it looks at the audit's result.
AuditFailAfterSave ==
    /\ tm_pc = "parsed"
    /\ LET a == AuditTopicmapCoverage(topic_map, total_chunks)
       IN a.missing # {} \/ a.overlaps # {}
    /\ topicmap_json' = TRUE
    /\ tm_pc' = "raised"
    /\ UNCHANGED <<topic_map, total_chunks>>
    /\ UNCHANGED <<shardVars, schedVars, planVars, chunkVars, parseVars, asmVars, carveVars, sumVars>>

\* main.run_topicmap_batch lines 209-213: the audit fails and the run raises.
AuditFail ==
    /\ tm_pc = "parsed"
    /\ LET a == AuditTopicmapCoverage(topic_map, total_chunks)
       IN a.missing # {} \/ a.overlaps # {}
    /\ tm_pc' = "raised"
    /\ UNCHANGED <<topic_map, total_chunks, topicmap_json>>
    /\ UNCHANGED <<shardVars, schedVars, planVars, chunkVars, parseVars, asmVars, carveVars, sumVars>>

\* main.run_topicmap_batch lines 209-223: the audit passes, the map is saved
\* and returned.
AuditPass ==
    /\ tm_pc = "parsed"
    /\ LET a == AuditTopicmapCoverage(topic_map, total_chunks)
       IN a.missing = {} /\ a.overlaps = {}
    /\ topicmap_json' = TRUE
    /\ tm_pc' = "saved"
    /\ UNCHANGED <<topic_map, total_chunks>>
    /\ UNCHANGED <<shardVars, schedVars, planVars, chunkVars, parseVars, asmVars, carveVars, sumVars>>

\* ------------------------------------------------------------------------
\* Specification of the coverage audit
\* ------------------------------------------------------------------------
\* Span ends range over -1..n, so a span can be reversed or leave [0, n-1] on
\* either side.  The topics are split over two units at every position.
AuditSpans(n) == (-1..n) \X (-1..n)
AuditMaps(n) ==
    {<<[unit_id |-> <<"u", "1">>,
        topics |-> [k \in 1..cut |-> [topic_id |-> <<"t">>, chunk_span |-> sp[k]]]],
       [unit_id |-> <<"u", "2">>,
        topics |-> [k \in 1..(Len(sp) - cut) |->
                       [topic_id |-> <<"t">>, chunk_span |-> sp[cut + k]]]]>> :
        <<sp, cut>> \in {x \in SeqsUpTo(AuditSpans(n), MaxTopics) \X (0..MaxTopics) :
                            x[2] <= Len(x[1])}}

MapIdle ==
    /\ topic_map = <<>>
    /\ total_chunks = 0
    /\ tm_pc = "idle"
    /\ topicmap_json = FALSE

PlanIdle ==
    /\ QUESTION_TYPES_PER_TOPIC = <<>>
    /\ QUESTION_TYPE_MULTIPLIER = 0
    /\ planned = <<>>
    /\ plan_pc = "idle"

AuditInit ==
    /\ total_chunks \in 1..MaxChunks
    /\ topic_map \in AuditMaps(total_chunks)
    /\ tm_pc = "parsed"
    /\ topicmap_json = FALSE

\* ------------------------------------------------------------------------
\* Characters and strings
\* ------------------------------------------------------------------------
\* A line is a sequence of characters; a multi-line string is the sequence of
\* its lines ("\n".join and str.splitlines convert between the two).
IsSpace(c) == c = " "
DigitChars == {"0", "1", "2", "3", "4", "5", "6", "7", "8", "9"}

LowerChar(c) ==
    CASE c = "U" -> "u" [] c = "N" -> "n" [] c = "I" -> "i" [] c = "T" -> "t"
      [] c = "M" -> "m" [] c = "C" -> "c" [] c = "Q" -> "q" [] c = "F" -> "f"
      [] c = "S" -> "s" [] c = "A" -> "a" [] c = "B" -> "b" [] c = "D" -> "d"
      [] c = "E" -> "e" [] c = "O" -> "o" [] OTHER -> c
Lower(s) == [i \in 1..Len(s) |-> LowerChar(s[i])]

\* str.rstrip, str.lstrip and str.strip of a line
RECURSIVE RStrip(_)
RStrip(s) ==
    IF s # <<>> /\ IsSpace(s[Len(s)]) THEN RStrip(SubSeq(s, 1, Len(s) - 1)) ELSE s
RECURSIVE LStrip(_)
LStrip(s) == IF s # <<>> /\ IsSpace(Head(s)) THEN LStrip(Tail(s)) ELSE s
Strip(s) == LStrip(RStrip(s))

\* str.strip of a multi-line string: blank lines at both ends go, the first
\* line loses its leading and the last its trailing whitespace.
RECURSIVE DropTrailingBlank(_)
DropTrailingBlank(ls) ==
    IF ls # <<>> /\ Strip(ls[Len(ls)]) = <<>>
    THEN DropTrailingBlank(SubSeq(ls, 1, Len(ls) - 1))
    ELSE ls
RECURSIVE DropLeadingBlank(_)
DropLeadingBlank(ls) ==
    IF ls # <<>> /\ Strip(Head(ls)) = <<>> THEN DropLeadingBlank(Tail(ls)) ELSE ls
StripText(ls) ==
    LET core == DropLeadingBlank(DropTrailingBlank(ls))
    IN IF core = <<>> THEN <<>>
       ELSE IF Len(core) = 1 THEN <<Strip(core[1])>>
       ELSE <<LStrip(core[1])>> \o SubSeq(core, 2, Len(core) - 1)
            \o <<RStrip(core[Len(core)])>>

\* len of a multi-line string: its characters and the newlines between lines.
TextLen(ls) ==
    IF ls = <<>> THEN 0
    ELSE SumSeq([i \in 1..Len(ls) |-> Len(ls[i])]) + (Len(ls) - 1)

\* ------------------------------------------------------------------------
\* chunking.py: the separator and heading patterns
\* ------------------------------------------------------------------------
AllChars(s, c) == \A i \in 1..Len(s) : s[i] = c

\* SEP_THREE = ^\s*\.{3}\s*$
SEP_THREE(ln) == Strip(ln) = <<".", ".", ".">>
\* SEP_SIX = ^\s*\.{6,}\s*$
SEP_SIX(ln) == Len(Strip(ln)) >= 6 /\ AllChars(Strip(ln), ".")
\* UNDERLINE_ROW = ^_{5,}\s*$
UNDERLINE_ROW(ln) == Len(RStrip(ln)) >= 5 /\ AllChars(RStrip(ln), "_")
\* HEADING, its alternative Unit\s+\d+ (case-insensitive); the other
\* alternatives are fixed titles that no line of the model spells.
HEADING(ln) ==
    LET s == Lower(Strip(ln))
    IN /\ Len(s) >= 6
       /\ SubSeq(s, 1, 4) = <<"u", "n", "i", "t">>
       /\ \E k \in 5..(Len(s) - 1) :
             /\ \A i \in 5..k : IsSpace(s[i])
             /\ \A i \in (k + 1)..Len(s) : s[i] \in DigitChars

\* ------------------------------------------------------------------------
\* chunking.semantic_chunks
\* ------------------------------------------------------------------------
\* line 49
RStripLines(ls) == [i \in 1..Len(ls) |-> RStrip(ls[i])]

\* Phase 1, lines 52-61: the sections between strong separators.
RECURSIVE StrongSplit(_, _, _)
StrongSplit(ls, sections, cur) ==
    IF ls = <<>>
    THEN IF cur # <<>> THEN Append(sections, StripText(cur)) ELSE sections
    ELSE IF SEP_SIX(Head(ls)) \/ UNDERLINE_ROW(Head(ls))
         THEN IF cur # <<>>
              THEN StrongSplit(Tail(ls), Append(sections, StripText(cur)), <<>>)
              ELSE StrongSplit(Tail(ls), sections, <<>>)
         ELSE StrongSplit(Tail(ls), sections, Append(cur, Head(ls)))

\* lines 68-72: flush_buf
FlushBuf(out, buf) == IF buf # <<>> THEN Append(out, StripText(buf)) ELSE out

\* Phase 2, lines 74-89: the loop of sub_split over the lines of a section.
RECURSIVE SubSplitLoop(_, _, _)
SubSplitLoop(ls, out, buf) ==
    IF ls = <<>> THEN FlushBuf(out, buf)
    ELSE IF SEP_THREE(Head(ls))
         THEN SubSplitLoop(Tail(ls), FlushBuf(out, buf), <<>>)
         ELSE IF HEADING(Head(ls))
              THEN SubSplitLoop(Tail(ls), FlushBuf(out, buf), <<Strip(Head(ls))>>)
              ELSE SubSplitLoop(Tail(ls), out, Append(buf, Head(ls)))

\* line 91: the blocks kept; a block is a multi-line string, and SEP_THREE
\* matches it only when it is a single '...' line.
KeepBlock(b) == b # <<>> /\ ~(Len(b) = 1 /\ SEP_THREE(b[1]))

RECURSIVE SelectBlocks(_)
SelectBlocks(out) ==
    IF out = <<>> THEN <<>>
    ELSE (IF KeepBlock(Head(out)) THEN <<Head(out)>> ELSE <<>>)
         \o SelectBlocks(Tail(out))

SubSplit(sec) == SelectBlocks(SubSplitLoop(sec, <<>>, <<>>))

\* lines 93-95
RECURSIVE BlocksOfSections(_)
BlocksOfSections(sections) ==
    IF sections = <<>> THEN <<>>
    ELSE SubSplit(Head(sections)) \o BlocksOfSections(Tail(sections))

Blocks(txt) == BlocksOfSections(StrongSplit(RStripLines(txt), <<>>, <<>>))

\* lines 102-106: flush; the packer's state is [chunks, buf, buf_len], buf a
\* sequence of blocks.
Flush(st) ==
    IF st.buf # <<>>
    THEN [chunks |-> Append(st.chunks, StripText(Concat(st.buf))),
          buf |-> <<>>, buf_len |-> 0]
    ELSE st

\* The packing loop without the size test of line 115: b always joins the
\* buffer.
PackBlockNoLimit(st, b, mc, sm) ==
    [st EXCEPT !.buf = Append(st.buf, b), !.buf_len = st.buf_len + TextLen(b) + 1]

\* lines 108-129: one turn of the packing loop, for block b.
PackBlock(st, b, mc, sm) ==
    LET bl == TextLen(b)
    IN IF st.buf_len = 0
       THEN [st EXCEPT !.buf = Append(st.buf, b), !.buf_len = st.buf_len + bl + 1]
       ELSE IF st.buf_len + bl + 1 <= mc
       THEN [st EXCEPT !.buf = Append(st.buf, b), !.buf_len = st.buf_len + bl + 1]
       ELSE IF st.buf_len < sm /\ Len(st.buf) > 1
       THEN LET last == st.buf[Len(st.buf)]
                popped == [st EXCEPT !.buf = SubSeq(st.buf, 1, Len(st.buf) - 1),
                                     !.buf_len = st.buf_len - (TextLen(last) + 1)]
                flushed == Flush(popped)
            IN [flushed EXCEPT !.buf = Append(flushed.buf, last),
                               !.buf_len = TextLen(last) + 1]
       ELSE LET flushed == Flush(st)
            IN [flushed EXCEPT !.buf = Append(flushed.buf, b),
                               !.buf_len = bl + 1]

RECURSIVE PackLoop(_, _, _, _)
PackLoop(bs, st, mc, sm) ==
    IF bs = <<>> THEN st
    ELSE PackLoop(Tail(bs), PackBlock(st, Head(bs), mc, sm), mc, sm)

\* lines 97-132
Pack(bs, mc, sm) ==
    Flush(PackLoop(bs, [chunks |-> <<>>, buf |-> <<>>, buf_len |-> 0], mc, sm)).chunks

SemanticChunks(txt, mc, sm) == Pack(Blocks(txt), mc, sm)

\* ------------------------------------------------------------------------
\* Specification of semantic_chunks
\* ------------------------------------------------------------------------
\* The lines a text is made of: two content lines, a soft and a strong
\* separator, a heading and a whitespace-only line.
TextLines ==
    {<<"a", "a">>,
     <<"b", "b", "b", "b", "b", "b">>,
     <<".", ".", ".">>,
     <<".", ".", ".", ".", ".", ".">>,
     <<"U", "n", "i", "t", " ", "1">>,
     <<" ">>}
\* <<max_chars, soft_min>>
ChunkLimits == {<<10, 7>>, <<10, 0>>, <<4, 3>>}

ChunkIdle ==
    /\ text = <<>>
    /\ max_chars = 0
    /\ soft_min = 0
    /\ chunks = <<>>
    /\ chunk_pc = "idle"

ChunkInit ==
    /\ text \in SeqsUpTo(TextLines, MaxLines)
    /\ \E lim \in ChunkLimits : max_chars = lim[1] /\ soft_min = lim[2]
    /\ chunks = <<>>
    /\ chunk_pc = "input"

CallSemanticChunks ==
    /\ chunk_pc = "input"
    /\ chunks' = SemanticChunks(text, max_chars, soft_min)
    /\ chunk_pc' = "returned"
    /\ UNCHANGED <<text, max_chars, soft_min>>
    /\ UNCHANGED <<shardVars, schedVars, mapVars, planVars, parseVars, asmVars, carveVars, sumVars>>

\* ------------------------------------------------------------------------
\* build_batch.build_questions_requests_balanced
\* ------------------------------------------------------------------------
DigitOf(n) == <<"0", "1", "2", "3", "4", "5", "6", "7", "8", "9">>[n + 1]

RECURSIVE Decimal(_)
Decimal(n) == IF n < 10 THEN <<DigitOf(n)>> ELSE Decimal(n \div 10) \o <<DigitOf(n % 10)>>

\* f"{seq:02d}"
Format02d(n) == IF n < 10 THEN <<"0">> \o Decimal(n) ELSE Decimal(n)

\* line 100: f"q_{u}_{t['topic_id']}_{ft}_{seq:02d}"
CustomId(u, topic_id, ft, seq) ==
    <<"q", "_">> \o u \o <<"_">> \o topic_id \o <<"_">> \o ft \o <<"_">> \o Format02d(seq)

\* line 84: force_type.strip().lower()
ForceType(force_type) == Lower(Strip(force_type))

\* lines 82-83: the type mix of one topic, QUESTION_TYPE_MULTIPLIER times over.
RECURSIVE TypeMix(_, _)
TypeMix(types, times) == IF times = 0 THEN <<>> ELSE types \o TypeMix(types, times - 1)

\* lines 85-87: the per-(topic_id, type) counter after one more request.
CountOf(counts, key) == IF key \in DOMAIN counts THEN counts[key] ELSE 0
Bump(counts, key) ==
    [k \in (DOMAIN counts) \cup {key} |-> IF k = key THEN CountOf(counts, key) + 1
                                          ELSE counts[k]]

\* lines 83-122: the requests of one topic t, given the counters so far;
\* returns [reqs, counts].
RECURSIVE TopicRequests(_, _, _, _)
TopicRequests(t, mix, acc, counts) ==
    IF mix = <<>> THEN [reqs |-> acc, counts |-> counts]
    ELSE LET ft == ForceType(Head(mix))
             key == <<t.topic_id, ft>>
             bumped == Bump(counts, key)
             req == [custom_id |-> CustomId(t.unit_id, t.topic_id, ft, bumped[key]),
                     unit_id |-> t.unit_id, topic_id |-> t.topic_id, force_type |-> ft]
         IN TopicRequests(t, Tail(mix), Append(acc, req), bumped)

\* lines 75-124: the loop over the topics of all units.
RECURSIVE PlanTopics(_, _, _, _)
PlanTopics(topics, mix, acc, counts) ==
    IF topics = <<>> THEN acc
    ELSE LET r == TopicRequests(Head(topics), mix, acc, counts)
         IN PlanTopics(Tail(topics), mix, r.reqs, r.counts)

BuildQuestionsRequestsBalanced(tm, types, multiplier) ==
    PlanTopics(TopicsOf(tm), TypeMix(types, Max2(1, multiplier)), <<>>, <<>>)

\* main.run_questions_batch lines 319-324: expected_total.
ExpectedTotal(tm, types, multiplier) == Len(TopicsOf(tm)) * Len(types) * multiplier

\* ------------------------------------------------------------------------
\* Specification of the request planner
\* ------------------------------------------------------------------------
\* Unit and topic ids with and without underscores; types spelled in lower
\* case, upper case and with a leading blank.
PlanUnitIds == {<<"u">>, <<"u", "_", "t">>}
PlanTopicIds == {<<"t">>, <<"t", "_", "t">>}
PlanTypes == {<<"m", "c", "q">>, <<"t", "f">>, <<" ", "T", "F">>}
PlanTypeLists == {<<x>> : x \in PlanTypes} \cup (PlanTypes \X PlanTypes)
PlanMultipliers == {0, 1, 2}
\* The maps are ones run_topicmap_batch returns: the k-th topic of the map
\* covers chunk k - 1, so the audit passes.
PlanUnit(u, ids, first) ==
    [unit_id |-> u,
     topics |-> [k \in 1..Len(ids) |->
                    [topic_id |-> ids[k],
                     chunk_span |-> <<first + k - 1, first + k - 1>>]]]
PlanUnitInputs == PlanUnitIds \X SeqsUpTo(PlanTopicIds, MaxTopics)
PlanMaps ==
    {<<PlanUnit(x[1], x[2], 0)>> : x \in PlanUnitInputs}
    \cup {<<PlanUnit(x[1][1], x[1][2], 0), PlanUnit(x[2][1], x[2][2], Len(x[1][2]))>> :
             x \in PlanUnitInputs \X PlanUnitInputs}

PlanInit ==
    /\ topic_map \in PlanMaps
    /\ total_chunks = Len(TopicsOf(topic_map))
    /\ tm_pc = "saved"
    /\ topicmap_json = TRUE
    /\ QUESTION_TYPES_PER_TOPIC \in PlanTypeLists
    /\ QUESTION_TYPE_MULTIPLIER \in PlanMultipliers
    /\ planned = <<>>
    /\ plan_pc = "input"

CallBuildQuestionsRequests ==
    /\ plan_pc = "input"
    /\ planned' = BuildQuestionsRequestsBalanced(topic_map, QUESTION_TYPES_PER_TOPIC,
                                                 QUESTION_TYPE_MULTIPLIER)
    /\ plan_pc' = "returned"
    /\ UNCHANGED <<QUESTION_TYPES_PER_TOPIC, QUESTION_TYPE_MULTIPLIER>>
    /\ UNCHANGED <<shardVars, schedVars, mapVars, chunkVars, parseVars, asmVars, carveVars, sumVars>>

\* ------------------------------------------------------------------------
\* assemble.parse_batch_output
\* ------------------------------------------------------------------------
\* A record of the output file is
\*   json        "blank" (empty line), "invalid" (json.loads raises), "value"
\*               (JSON that is not an object) or "object"
\*   response    the value of its "response" key: "absent", "null", "empty"
\*               (a falsy non-object such as []), "scalar" (a truthy non-object
\*               such as "x" or 5) or "object"
\*   body        the value of response["body"]: "absent", "null", "scalar" (any
\*               other non-object) or "object"
\*   output      the value of body["output"]: "absent", "scalar" (not a list)
\*               or "list"
\*   content     the content blocks of the output items, in order
\*   output_text the value of body["output_text"], a text
\* A content block is [dict, type, json, data, text]; a JSON payload (a dict or
\* a list) is one of Payloads, any other JSON value is "scalar".
\* A text is [kind, value]: "absent" (no key, or not a string), "blank",
\* "junk" (neither json.loads nor carving yields a value), "json" (json.loads
\* of the unfenced text yields value) or "carved" (json.loads fails and the
\* carved {...} span loads as value).
Payloads == {"p1", "p2", "p3"}

NoText == [kind |-> "absent", value |-> "None"]
JsonText(p) == [kind |-> "json", value |-> p]

\* lines 56-73: _try_parse_json_string; "None" when it returns None, which it
\* also does for the text 'null'.
TryParseJsonString(t) ==
    IF t.kind \in {"json", "carved"} /\ t.value # "null" THEN t.value ELSE "None"

\* lines 128 and 146: isinstance(x, str) and x.strip()
IsNonBlankStr(t) == t.kind \notin {"absent", "blank"}

\* line 110: (c.get("type") or "").lower() raises for a truthy value that is
\* not a string.
CTypeRaises(c) == c.type = "5"
CType(c) ==
    CASE c.type = "None" -> ""
      [] c.type = "JSON" -> "json"
      [] OTHER -> c.type

\* lines 116-122: the payload a block gives to strategy 1, or "None".
StructuredPayload(c) ==
    IF c.json \in Payloads THEN c.json
    ELSE IF CType(c) = "json" /\ c.data \in Payloads THEN c.data
    ELSE "None"

\* lines 101-122: strategy 1 over the content blocks.
RECURSIVE StructuredBlocks(_, _)
StructuredBlocks(content, acc) ==
    IF content = <<>> THEN [raised |-> FALSE, out |-> acc]
    ELSE LET c == Head(content)
         IN IF ~c.dict THEN StructuredBlocks(Tail(content), acc)
            ELSE IF CTypeRaises(c) THEN [raised |-> TRUE, out |-> acc]
            ELSE IF StructuredPayload(c) # "None"
                 THEN StructuredBlocks(Tail(content), Append(acc, StructuredPayload(c)))
                 ELSE StructuredBlocks(Tail(content), acc)

\* lines 136-150: strategy 3 over the content blocks.
RECURSIVE TextBlocks(_)
TextBlocks(content) ==
    IF content = <<>> THEN <<>>
    ELSE LET c == Head(content)
         IN (IF c.dict /\ IsNonBlankStr(c.text) /\ TryParseJsonString(c.text) # "None"
             THEN <<TryParseJsonString(c.text)>> ELSE <<>>)
            \o TextBlocks(Tail(content))

\* lines 94-95: resp and body as the code binds them.
RespOf(rec) ==
    IF rec.json = "object" /\ rec.response # "absent" THEN rec.response ELSE "object"
BodyOf(rec) ==
    IF rec.json = "object" /\ rec.response = "object" /\ rec.body # "absent"
    THEN rec.body ELSE "object"
\* body.get("output") and body.get("output_text") of a body that is a dict.
HasBodyKeys(rec) ==
    rec.json = "object" /\ rec.response = "object" /\ rec.body = "object"
OutputOf(rec) == IF HasBodyKeys(rec) THEN rec.output ELSE "absent"
ContentOf(rec) == IF OutputOf(rec) = "list" THEN rec.content ELSE <<>>
OutputTextOf(rec) == IF HasBodyKeys(rec) THEN rec.output_text ELSE NoText

\* One turn of the loop in which every strategy contributes: no "continue"
\* after strategy 1 (line 124) or after strategy 2 (line 132).
ParseRecordAllStrategies(rec) ==
    IF rec.json \in {"blank", "invalid"} THEN [raised |-> FALSE, out |-> <<>>]
    ELSE IF BodyOf(rec) # "object" THEN [raised |-> TRUE, out |-> <<>>]
    ELSE IF StructuredBlocks(ContentOf(rec), <<>>).raised
    THEN [raised |-> TRUE, out |-> <<>>]
    ELSE [raised |-> FALSE,
          out |-> StructuredBlocks(ContentOf(rec), <<>>).out
                  \o (IF TryParseJsonString(OutputTextOf(rec)) # "None"
                      THEN <<TryParseJsonString(OutputTextOf(rec))>> ELSE <<>>)
                  \o TextBlocks(ContentOf(rec))]

\* lines 82-175: one turn of the loop over the lines of the file; out holds the
\* payloads the line appends, raised tells that an AttributeError leaves the
\* function instead.
ParseRecord(rec) ==
    IF rec.json \in {"blank", "invalid"} THEN [raised |-> FALSE, out |-> <<>>]
    ELSE IF BodyOf(rec) # "object" THEN [raised |-> TRUE, out |-> <<>>]
    ELSE LET structured == StructuredBlocks(ContentOf(rec), <<>>)
             js == TryParseJsonString(OutputTextOf(rec))
             texts == TextBlocks(ContentOf(rec))
         IN IF structured.raised THEN [raised |-> TRUE, out |-> <<>>]
            ELSE IF structured.out # <<>> THEN [raised |-> FALSE, out |-> structured.out]
            ELSE IF IsNonBlankStr(OutputTextOf(rec)) /\ js # "None"
                 THEN [raised |-> FALSE, out |-> <<js>>]
            ELSE IF texts # <<>> THEN [raised |-> FALSE, out |-> texts]
            ELSE [raised |-> RespOf(rec) = "scalar", out |-> <<>>]

\* lines 80-81: the loop; it ends at the first record that raises.
RECURSIVE ParseLines(_, _)
ParseLines(lines, out) ==
    IF lines = <<>> THEN [raised |-> FALSE, out |-> out]
    ELSE LET r == ParseRecord(Head(lines))
         IN IF r.raised THEN [raised |-> TRUE, out |-> out]
            ELSE ParseLines(Tail(lines), out \o r.out)

\* lines 75-78 and 177-178
ParseBatchOutput(file) ==
    IF ~file.exists THEN [raised |-> FALSE, out |-> <<>>]
    ELSE ParseLines(file.lines, <<>>)

\* ------------------------------------------------------------------------
\* Specification of parse_batch_output
\* ------------------------------------------------------------------------
Block(type, json, data, txt) ==
    [dict |-> TRUE, type |-> type, json |-> json, data |-> data, text |-> txt]
\* The block shapes that are paired in a content list: a structured block, a
\* text block that parses and one that does not.
CoreBlocks ==
    {Block("json", "p1", "absent", NoText),
     Block("output_text", "absent", "absent", JsonText("p2")),
     Block("output_text", "absent", "absent", [kind |-> "junk", value |-> "None"])}
\* The shapes that come alone: a "data" payload under an upper-case type, a
\* carved text, a text that is 'null', a scalar under "json", a block that is
\* not a dict, and one whose type is a number.
LoneBlocks ==
    {Block("JSON", "absent", "p3", NoText),
     Block("None", "absent", "p3", [kind |-> "carved", value |-> "p2"]),
     Block("None", "absent", "absent", [kind |-> "json", value |-> "null"]),
     Block("json", "scalar", "absent", [kind |-> "blank", value |-> "None"]),
     [dict |-> FALSE, type |-> "None", json |-> "absent", data |-> "absent",
      text |-> NoText],
     Block("5", "p1", "absent", NoText)}
ParseContents ==
    {<<>>} \cup {<<b>> : b \in CoreBlocks \cup LoneBlocks} \cup (CoreBlocks \X CoreBlocks)
ParseOutputTexts ==
    {NoText, JsonText("p3"), [kind |-> "junk", value |-> "None"]}

Record(json, response, body, output, content, output_text) ==
    [json |-> json, response |-> response, body |-> body, output |-> output,
     content |-> content, output_text |-> output_text]
ParseRecords ==
    {Record(j, "absent", "absent", "absent", <<>>, NoText) :
        j \in {"blank", "invalid", "value", "object"}}
    \cup {Record("object", r, "absent", "absent", <<>>, NoText) :
             r \in {"null", "empty", "scalar", "object"}}
    \cup {Record("object", "object", b, "absent", <<>>, NoText) : b \in {"null", "scalar"}}
    \cup {Record("object", "object", "object", o, <<>>, t) :
             o \in {"absent", "scalar"}, t \in ParseOutputTexts}
    \cup {Record("object", "object", "object", "list", c, t) :
             c \in ParseContents, t \in ParseOutputTexts}

ParseIdle ==
    /\ jsonl = [exists |-> FALSE, lines |-> <<>>]
    /\ payloads = <<>>
    /\ parse_pc = "idle"
    /\ parse_error = "none"

ParseInit ==
    /\ jsonl \in {[exists |-> FALSE, lines |-> <<>>]}
                 \cup {[exists |-> TRUE, lines |-> ls] :
                          ls \in SeqsUpTo(ParseRecords, MaxRecords)}
    /\ payloads = <<>>
    /\ parse_pc = "input"
    /\ parse_error = "none"

\* parse_batch_output returns the payloads of all records.
ParseReturns ==
    /\ parse_pc = "input"
    /\ ~ParseBatchOutput(jsonl).raised
    /\ payloads' = ParseBatchOutput(jsonl).out
    /\ parse_pc' = "returned"
    /\ UNCHANGED <<jsonl, parse_error>>
    /\ UNCHANGED <<shardVars, schedVars, mapVars, planVars, chunkVars, asmVars, carveVars, sumVars>>

\* An AttributeError raised in a record's turn leaves parse_batch_output.
ParseRaises ==
    /\ parse_pc = "input"
    /\ ParseBatchOutput(jsonl).raised
    /\ parse_pc' = "raised"
    /\ parse_error' = "AttributeError"
    /\ UNCHANGED <<jsonl, payloads>>
    /\ UNCHANGED <<shardVars, schedVars, mapVars, planVars, chunkVars, asmVars, carveVars, sumVars>>

\* ------------------------------------------------------------------------
\* assemble.py: question items
\* ------------------------------------------------------------------------
\* An item is the record
\*   id             characters; <<>> when the key is missing
\*   topic_id       characters; <<>> when missing or empty
\*   topic_id_kind  "str", or "number" when the JSON value is a number
\*   type           characters; <<>> when missing
\*   choices        sequence of [id, text, is_correct], text being the text of
\*                  the choice's single paragraph
\*   choices_kind   "list", or "null" when the JSON value is null
\*   context_rich   characters: json.dumps of the context blocks
\*   question_rich  characters: the text of the question
\*   rest_ok        the fields not spelled out here satisfy the schema after
\*                  the repairs of validate_and_fix
\* The texts of the model hold letters and blanks only, so a context stays a
\* JSON document under soften_context and json.loads (line 254) followed by
\* json.dumps (line 236) returns the same characters.

\* config.py line 41
MAX_CONTEXT_SCAN_LEN == 8000

\* json.dumps([{"type": "paragraph", "children": [{"text": txt}]}])
JsonPrefix ==
    <<"[", "{", "\"", "t", "y", "p", "e", "\"", ":", " ", "\"", "p", "a",
      "r", "a", "g", "r", "a", "p", "h", "\"", ",", " ", "\"", "c", "h",
      "i", "l", "d", "r", "e", "n", "\"", ":", " ", "[", "{", "\"", "t",
      "e", "x", "t", "\"", ":", " ", "\"">>
JsonSuffix == <<"\"", "}", "]", "}", "]">>
JsonDumpsParagraph(txt) == JsonPrefix \o txt \o JsonSuffix

\* s[:n]
Take(s, n) == SubSeq(s, 1, IF n < Len(s) THEN n ELSE Len(s))

\* sub in s
Contains(s, sub) ==
    \E i \in 0..(Len(s) - Len(sub)) : SubSeq(s, i + 1, i + Len(sub)) = sub

\* re.sub(re.escape(pat), rep, s, flags=re.I), for a lower-case pat: the
\* leftmost matches, left to right, without overlap.
RECURSIVE ReSub(_, _, _, _, _)
ReSub(pat, rep, s, i, acc) ==
    IF i > Len(s) THEN acc
    ELSE IF i + Len(pat) - 1 <= Len(s) /\ Lower(SubSeq(s, i, i + Len(pat) - 1)) = pat
         THEN ReSub(pat, rep, s, i + Len(pat), acc \o rep)
         ELSE ReSub(pat, rep, s, i + 1, Append(acc, s[i]))

\* ------------------------------------------------------------------------
\* assemble.context_leak_check and soften_context
\* ------------------------------------------------------------------------
\* line 239: " ".join(_gather_text(c.get("text_rich", []))).lower().strip()
Plain(c) == Strip(Lower(c.text))

\* line 236
ContextText(q) == Lower(Take(q.context_rich, MAX_CONTEXT_SCAN_LEN))

\* lines 237-241
RECURSIVE LeaksOf(_, _)
LeaksOf(choices, context_text) ==
    IF choices = <<>> THEN <<>>
    ELSE (IF /\ Head(choices).is_correct
             /\ Plain(Head(choices)) # <<>>
             /\ Contains(context_text, Plain(Head(choices)))
          THEN <<Plain(Head(choices))>> ELSE <<>>)
         \o LeaksOf(Tail(choices), context_text)

\* The list of leaks context_leak_check returns; its flag is leaks = [].
ContextLeakCheck(q) == LeaksOf(q.choices, ContextText(q))

ThisConcept == <<"t", "h", "i", "s", " ", "c", "o", "n", "c", "e", "p", "t">>

\* lines 251-253
RECURSIVE ReplaceLeaks(_, _)
ReplaceLeaks(leaks, ctx_json) ==
    IF leaks = <<>> THEN ctx_json
    ELSE ReplaceLeaks(Tail(leaks), ReSub(Head(leaks), ThisConcept, ctx_json, 1, <<>>))

\* lines 245-254
SoftenContext(q) ==
    IF ContextLeakCheck(q) = <<>> THEN q
    ELSE [q EXCEPT !.context_rich = ReplaceLeaks(ContextLeakCheck(q), q.context_rich)]

\* ------------------------------------------------------------------------
\* assemble._normalize_choices_and_meta
\* ------------------------------------------------------------------------
mcq == <<"m", "c", "q">>
msq == <<"m", "s", "q">>
tf == <<"t", "f">>

\* chr(ord("A") + i), i = 0..4
ChoiceIds == <<"A", "B", "C", "D", "E">>

\* lines 313-331: the placeholder that becomes choice n.
Placeholder(n) ==
    [id |-> ChoiceIds[n],
     text |-> <<"O", "p", "t", "i", "o", "n", " ", ChoiceIds[n]>>,
     is_correct |-> FALSE]

\* A padding that adds nothing.
PadChoicesNever(choices) == choices

\* lines 311-331
RECURSIVE PadChoices(_)
PadChoices(choices) ==
    IF Len(choices) < 5 THEN PadChoices(Append(choices, Placeholder(Len(choices) + 1)))
    ELSE choices

\* lines 332-333
TrimChoices(choices) == IF Len(choices) > 5 THEN SubSeq(choices, 1, 5) ELSE choices

\* lines 336-337
Relabel(choices) == [i \in 1..Len(choices) |-> [choices[i] EXCEPT !.id = ChoiceIds[i]]]

\* lines 352 and 366: len(correct_idx)
CorrectCount(choices) == Cardinality({i \in 1..Len(choices) : choices[i].is_correct})

\* lines 354-359: the choices not marked correct are marked, in order, until
\* two are; n is len(correct_idx).
RECURSIVE MarkUntilTwo(_, _, _)
MarkUntilTwo(choices, i, n) ==
    IF i > Len(choices) THEN choices
    ELSE IF choices[i].is_correct THEN MarkUntilTwo(choices, i + 1, n)
    ELSE IF n + 1 >= 2 THEN [choices EXCEPT ![i].is_correct = TRUE]
    ELSE MarkUntilTwo([choices EXCEPT ![i].is_correct = TRUE], i + 1, n + 1)

\* A cap that clears no choice.
KeepFirstCorrectAll(choices, k) == choices

\* lines 360-362 (k = 3) and 369-371 (k = 1): the correct choices after the
\* first k are cleared.
KeepFirstCorrect(choices, k) ==
    [i \in 1..Len(choices) |->
        [choices[i] EXCEPT !.is_correct =
            /\ choices[i].is_correct
            /\ CorrectCount(SubSeq(choices, 1, i)) <= k]]

\* lines 351-362
EnsureMsq(choices) ==
    IF CorrectCount(choices) < 2 THEN MarkUntilTwo(choices, 1, CorrectCount(choices))
    ELSE IF CorrectCount(choices) > 3 THEN KeepFirstCorrect(choices, 3)
    ELSE choices

\* lines 365-371
EnsureMcq(choices) ==
    IF CorrectCount(choices) = 0 THEN [choices EXCEPT ![1].is_correct = TRUE]
    ELSE IF CorrectCount(choices) > 1 THEN KeepFirstCorrect(choices, 1)
    ELSE choices

\* lines 298-373, for an item whose choices are a list.
NormalizeChoicesAndMeta(item) ==
    LET t == Lower(item.type)
        five == Relabel(TrimChoices(PadChoices(item.choices)))
    IN IF t = msq THEN [item EXCEPT !.choices = EnsureMsq(five)]
       ELSE IF t = mcq THEN [item EXCEPT !.choices = EnsureMcq(five)]
       ELSE item

\* ------------------------------------------------------------------------
\* assemble.validate_and_fix
\* ------------------------------------------------------------------------
\* lines 446-455: the canonical wording of a true/false choice.
CanonicalTfChoice(c) ==
    IF Contains(Lower(Strip(c.text)), <<"t", "r", "u", "e">>)
    THEN [c EXCEPT !.text = <<"T", "r", "u", "e">>]
    ELSE IF Contains(Lower(Strip(c.text)), <<"f", "a", "l", "s", "e">>)
    THEN [c EXCEPT !.text = <<"F", "a", "l", "s", "e">>]
    ELSE c

\* lines 444-455
CanonicalTf(it) ==
    IF it.type = tf
    THEN [it EXCEPT !.choices = [i \in 1..Len(it.choices) |-> CanonicalTfChoice(it.choices[i])]]
    ELSE it

\* lines 408-489: the repairs of one item, in the order of the loop body.
FixItem(it) == CanonicalTf(NormalizeChoicesAndMeta(SoftenContext(it)))

\* schema_models.Question.check_by_type, lines 45-53; the grading of an item
\* of a known type is of its mode (assemble.py 414-433).
CheckByType(it) ==
    /\ it.type = tf => (Len(it.choices) = 2 /\ CorrectCount(it.choices) = 1)
    /\ it.type = mcq => CorrectCount(it.choices) = 1
    /\ it.type = msq => CorrectCount(it.choices) >= 2

\* lines 491-493: Question(**it) does not raise.
QuestionValid(it) ==
    /\ it.type \in {mcq, msq, tf}
    /\ it.topic_id # <<>>
    /\ it.choices # <<>>
    /\ CheckByType(it)
    /\ it.rest_ok

\* lines 491-499: the items kept, in order.
RECURSIVE SelectValid(_)
SelectValid(its) ==
    IF its = <<>> THEN <<>>
    ELSE (IF QuestionValid(Head(its)) THEN <<Head(its)>> ELSE <<>>)
         \o SelectValid(Tail(its))

\* line 396: f"q_{topic}_{qtype}_{seq:02d}"
ItemId(topic, qtype, seq) ==
    <<"q", "_">> \o topic \o <<"_">> \o qtype \o <<"_">> \o Format02d(seq)

\* assemble._enforce_id_convention, lines 385-396.  draws are the values the
\* calls of uuid.uuid4 yield, in order; the result is [items, draws, ok], ok
\* FALSE when the given draws do not suffice.  The argument of setdefault
\* (line 391) is evaluated whether or not the item has an id.
RECURSIVE EnforceIdConvention(_, _, _, _)
EnforceIdConvention(its, i, counters, draws) ==
    IF i > Len(its) THEN [items |-> its, draws |-> draws, ok |-> TRUE]
    ELSE LET topic == Strip(its[i].topic_id)
             qtype == Lower(Strip(its[i].type))
             key == <<topic, qtype>>
         IN IF topic = <<>> \/ qtype \notin {mcq, msq, tf}
            THEN IF draws = <<>>
                 THEN [items |-> its, draws |-> draws, ok |-> FALSE]
                 ELSE EnforceIdConvention(
                          [its EXCEPT ![i].id = IF @ = <<>> THEN Head(draws) ELSE @],
                          i + 1, counters, Tail(draws))
            ELSE EnforceIdConvention(
                     [its EXCEPT ![i].id = ItemId(topic, qtype, CountOf(counters, key) + 1)],
                     i + 1, Bump(counters, key), draws)

\* assemble.ensure_ids_unique lines 203-205: the id of one item, drawn again
\* while it is in seen.
RECURSIVE FreshId(_, _, _)
FreshId(qid, seen, draws) ==
    IF qid # <<>> /\ qid \notin seen THEN [id |-> qid, draws |-> draws, ok |-> TRUE]
    ELSE IF draws = <<>> THEN [id |-> qid, draws |-> draws, ok |-> FALSE]
    ELSE FreshId(Head(draws), seen, Tail(draws))

\* An ensure_ids_unique that keeps every id.
EnsureIdsUniqueNever(its, i, seen, draws) == [items |-> its, draws |-> draws, ok |-> TRUE]

\* assemble.ensure_ids_unique, lines 200-207
RECURSIVE EnsureIdsUnique(_, _, _, _)
EnsureIdsUnique(its, i, seen, draws) ==
    IF i > Len(its) THEN [items |-> its, draws |-> draws, ok |-> TRUE]
    ELSE IF ~FreshId(its[i].id, seen, draws).ok
         THEN [items |-> its, draws |-> draws, ok |-> FALSE]
         ELSE EnsureIdsUnique([its EXCEPT ![i].id = FreshId(its[i].id, seen, draws).id],
                              i + 1,
                              seen \cup {FreshId(its[i].id, seen, draws).id},
                              FreshId(its[i].id, seen, draws).draws)

\* lines 403-406
AssignIds(its, draws) ==
    IF ~EnforceIdConvention(its, 1, <<>>, draws).ok
    THEN EnforceIdConvention(its, 1, <<>>, draws)
    ELSE EnsureIdsUnique(EnforceIdConvention(its, 1, <<>>, draws).items, 1, {},
                         EnforceIdConvention(its, 1, <<>>, draws).draws)

\* line 387: .strip() of a topic_id that is a number other than 0 raises.
EnforceRaises(q) == q.topic_id_kind = "number"
\* line 237: the loop over choices that are null raises.
LeakCheckRaises(q) == q.choices_kind = "null"

\* The exception that leaves validate_and_fix(its), "none" when it returns.
ValidateAndFixError(its) ==
    IF \E k \in 1..Len(its) : EnforceRaises(its[k]) THEN "AttributeError"
    ELSE IF \E k \in 1..Len(its) : LeakCheckRaises(its[k]) THEN "TypeError"
    ELSE "none"

\* lines 399-502, for items that carry their final ids.
FixAll(its) == SelectValid([k \in 1..Len(its) |-> FixItem(its[k])])

\* ------------------------------------------------------------------------
\* Specification of validate_and_fix
\* ------------------------------------------------------------------------
\* f"q_{uuid.uuid4().hex[:6]}"
UuidIds == {<<"q", "_", "a", "a", "a", "a", "a", "a">>,
            <<"q", "_", "b", "b", "b", "b", "b", "b">>}

Choice(txt, ok) == [id |-> "Z", text |-> txt, is_correct |-> ok]
\* The choices of mcq and msq items: an answer, a distractor of the same
\* wording, and an answer whose wording is part of the replacement text.
ChoiceShapes ==
    {Choice(<<"a", "b">>, TRUE), Choice(<<"a", "b">>, FALSE),
     Choice(<<"c", "o", "n", "c", "e", "p", "t">>, TRUE)}
TfChoiceShapes ==
    {Choice(<<"T", "r", "u", "e">>, TRUE), Choice(<<"F", "a", "l", "s", "e">>, FALSE),
     Choice(<<"s", "o", " ", "t", "r", "u", "e">>, TRUE)}
ShapesOf(type) == IF type = tf THEN TfChoiceShapes ELSE ChoiceShapes
ContextTexts ==
    {<<"x", "y">>,
     <<"A", "b", " ", "c", "o", "n", "c", "e", "p", "t">>,
     <<"O", "p", "t", "i", "o", "n", " ", "A">>,
     <<"t", "r", "u", "e">>}

BaseItem ==
    [id |-> <<"x">>, topic_id |-> <<"t">>, topic_id_kind |-> "str", type |-> mcq,
     choices |-> <<>>, choices_kind |-> "list",
     context_rich |-> JsonDumpsParagraph(<<"x", "y">>),
     question_rich |-> <<"q", "1">>, rest_ok |-> TRUE]

\* Items that differ in their choices and context, with up to n choices.
RichItems(n) ==
    UNION {{[BaseItem EXCEPT !.type = ty, !.choices = cs,
                             !.context_rich = JsonDumpsParagraph(ctx)] :
               cs \in SeqsUpTo(ShapesOf(ty), n), ctx \in ContextTexts} :
           ty \in {mcq, msq, tf}}

\* Items that differ in what decides their id and their validity.
PlainIds == {<<>>, <<"q", "_", "t", "_", "m", "c", "q", "_", "0", "1">>,
             <<"q", "_", "a", "a", "a", "a", "a", "a">>}
PlainTopics ==
    {[topic_id |-> <<"t">>, kind |-> "str"], [topic_id |-> <<" ">>, kind |-> "str"],
     [topic_id |-> <<>>, kind |-> "str"], [topic_id |-> <<>>, kind |-> "number"]}
PlainTypes == {mcq, tf, <<"M", "C", "Q">>, <<>>}
PlainChoices(type) ==
    IF type = tf
    THEN <<Choice(<<"T", "r", "u", "e">>, TRUE), Choice(<<"F", "a", "l", "s", "e">>, FALSE)>>
    ELSE <<Choice(<<"a", "b">>, TRUE)>>
PlainItems ==
    {[BaseItem EXCEPT !.id = i, !.topic_id = t.topic_id, !.topic_id_kind = t.kind,
                      !.type = ty, !.choices = IF k = "list" THEN PlainChoices(ty) ELSE <<>>,
                      !.choices_kind = k, !.rest_ok = ok] :
        i \in PlainIds, t \in PlainTopics, ty \in PlainTypes, k \in {"list", "null"},
        ok \in BOOLEAN}

ItemLists(n) ==
    {<<>>}
    \cup {<<a>> : a \in RichItems(n) \cup PlainItems}
    \cup {<<x[1], [x[2] EXCEPT !.question_rich = <<"q", "2">>]>> :
             x \in PlainItems \X PlainItems}

AsmIdle ==
    /\ items = <<>>
    /\ fixed = <<>>
    /\ asm_pc = "idle"
    /\ asm_error = "none"

AsmInit ==
    /\ items \in ItemLists(MaxChoices)
    /\ fixed = <<>>
    /\ asm_pc = "input"
    /\ asm_error = "none"

\* validate_and_fix returns the repaired items that pass the schema.
ValidateAndFixReturns ==
    /\ asm_pc = "input"
    /\ ValidateAndFixError(items) = "none"
    /\ \E draws \in SeqsUpTo(UuidIds, MaxDraws) :
          /\ AssignIds(items, draws).ok
          /\ AssignIds(items, draws).draws = <<>>
          /\ fixed' = FixAll(AssignIds(items, draws).items)
    /\ asm_pc' = "returned"
    /\ UNCHANGED <<items, asm_error>>
    /\ UNCHANGED <<shardVars, schedVars, mapVars, planVars, chunkVars, parseVars, carveVars, sumVars>>

\* An exception raised for one item leaves validate_and_fix.
ValidateAndFixRaises ==
    /\ asm_pc = "input"
    /\ ValidateAndFixError(items) # "none"
    /\ asm_pc' = "raised"
    /\ asm_error' = ValidateAndFixError(items)
    /\ UNCHANGED <<items, fixed>>
    /\ UNCHANGED <<shardVars, schedVars, mapVars, planVars, chunkVars, parseVars, carveVars, sumVars>>

\* ------------------------------------------------------------------------
\* The carving helper (assemble.py 39-54, summary.py 132-143)
\* ------------------------------------------------------------------------
\* None: no span was closed.  A span holds at least its two braces.
NoSpan == <<>>

\* The loop over the characters of s: stack is the nesting depth, start the
\* index of the brace that opened the current top-level span, best the span
\* closed last.
RECURSIVE CarveLoop(_, _, _, _, _)
CarveLoop(s, i, stack, start, best) ==
    IF i > Len(s) THEN best
    ELSE IF s[i] = "{"
    THEN CarveLoop(s, i + 1, stack + 1, IF stack = 0 THEN i ELSE start, best)
    ELSE IF s[i] = "}" /\ stack > 0
    THEN CarveLoop(s, i + 1, stack - 1, start,
                   IF stack - 1 = 0 /\ start # 0 THEN SubSeq(s, start, i) ELSE best)
    ELSE CarveLoop(s, i + 1, stack, start, best)

\* assemble.py 39-54; start = 0 stands for None.
ExtractJsonObject(s) == CarveLoop(s, 1, 0, 0, NoSpan)

\* summary.py 132-143
CarveLargestObject(s) == CarveLoop(s, 1, 0, 0, NoSpan)

Carvers == {"_extract_json_object", "_carve_largest_object"}
CarveChars == {"{", "}", "a"}

CarveIdle ==
    /\ carver = "none"
    /\ carve_text = <<>>
    /\ carved = NoSpan
    /\ carve_pc = "idle"

CarveInit ==
    /\ carver \in Carvers
    /\ carve_text \in SeqsUpTo(CarveChars, MaxCarveLen)
    /\ carved = NoSpan
    /\ carve_pc = "input"

CallCarve ==
    /\ carve_pc = "input"
    /\ carved' = IF carver = "_extract_json_object"
                 THEN ExtractJsonObject(carve_text)
                 ELSE CarveLargestObject(carve_text)
    /\ carve_pc' = "returned"
    /\ UNCHANGED <<carver, carve_text>>
    /\ UNCHANGED <<shardVars, schedVars, mapVars, planVars, chunkVars, parseVars, asmVars, sumVars>>

\* ------------------------------------------------------------------------
\* Summary map and tree reduce (summary.py 370-565, 729-910)
\* ------------------------------------------------------------------------
\* A dict of the summary pipeline: keys is "none" for {}, "raw" for a dict as
\* the service wrote it, "1.0" for a dict with schema_version "1.0".  sections
\* holds the titles of its narrative sections; a slide is filled when every
\* subheading of it has content.
Slide(t, f) == [title |-> t, filled |-> f]
Dict(k, secs, sls) == [keys |-> k, sections |-> secs, slides |-> sls]
EmptyDict == Dict("none", <<>>, <<>>)
Truthy(d) == d.keys # "none"
BlankTitle == " "

\* summary.py 384-405, 488-490: sections without a title are dropped.
RECURSIVE NormalizeSections(_)
NormalizeSections(secs) ==
    IF secs = <<>> THEN <<>>
    ELSE (IF Head(secs) = BlankTitle THEN <<>> ELSE <<Head(secs)>>)
         \o NormalizeSections(Tail(secs))

\* summary.py 417-445, 492-496: slides without a title are dropped.
RECURSIVE NormalizeSlides(_)
NormalizeSlides(sls) ==
    IF sls = <<>> THEN <<>>
    ELSE (IF Head(sls).title = BlankTitle THEN <<>> ELSE <<Head(sls)>>)
         \o NormalizeSlides(Tail(sls))

\* summary.py 447-491, for a dict argument
NormalizeSummaryShape(d) ==
    Dict("1.0", NormalizeSections(d.sections), NormalizeSlides(d.slides))

\* schema_models.py 111-135: StudySummary(**d) does not raise.
StudySummaryValid(d) ==
    /\ d.keys = "1.0"
    /\ d.sections # <<>>
    /\ d.slides # <<>>
    /\ \A i \in 1..Len(d.slides) : d.slides[i].filled

\* The titles of ts in order of first occurrence, those in seen left out.
RECURSIVE FirstOccurrences(_, _)
FirstOccurrences(ts, seen) ==
    IF ts = <<>> THEN <<>>
    ELSE IF Head(ts) \in seen THEN FirstOccurrences(Tail(ts), seen)
    ELSE <<Head(ts)>> \o FirstOccurrences(Tail(ts), seen \cup {Head(ts)})

\* summary.py 503-531
MergeSections(sa, sb) == FirstOccurrences(sa \o sb, {BlankTitle})

\* summary.py 534-561: a merged slide has content if one of its sources has.
MergeSlides(sa, sb) ==
    LET all == sa \o sb
        order == FirstOccurrences([i \in 1..Len(all) |-> all[i].title], {BlankTitle})
    IN [k \in 1..Len(order) |->
           Slide(order[k], \E i \in 1..Len(all) :
                              all[i].title = order[k] /\ all[i].filled)]

\* summary.py 496-565
LocalMerge(a, b) ==
    LET na == NormalizeSummaryShape(a)
        nb == NormalizeSummaryShape(b)
    IN Dict("1.0", MergeSections(na.sections, nb.sections),
            MergeSlides(na.slides, nb.slides))

\* summary.py 887-891: local = {}; for part in gm: local = _local_merge(...)
RECURSIVE LocalMergeAll(_, _)
LocalMergeAll(gm, local) ==
    IF gm = <<>> THEN local
    ELSE LocalMergeAll(Tail(gm), LocalMerge(local, Head(gm)))

\* A payload _parse_jsonl_with_ids gives for a response: a dict, a list of
\* dicts or a non-empty string.
PDict(d) == [kind |-> "dict", elems |-> <<d>>]
PList(ds) == [kind |-> "list", elems |-> ds]
PText == [kind |-> "text", elems |-> <<>>]
PayloadTruthy(p) ==
    IF p.kind = "dict" THEN Truthy(p.elems[1])
    ELSE IF p.kind = "list" THEN p.elems # <<>>
    ELSE TRUE

\* f"{n:04d}"
Format04d(n) ==
    IF n < 10 THEN <<"0", "0", "0">> \o Decimal(n)
    ELSE IF n < 100 THEN <<"0", "0">> \o Decimal(n)
    ELSE IF n < 1000 THEN <<"0">> \o Decimal(n)
    ELSE Decimal(n)

\* int(ds) for a string of decimal digits
RECURSIVE ParseInt(_)
ParseInt(ds) ==
    IF ds = <<>> THEN 0
    ELSE 10 * ParseInt(SubSeq(ds, 1, Len(ds) - 1))
         + (CHOOSE n \in 0..9 : DigitOf(n) = ds[Len(ds)])

\* A custom id is held as its parts between "_": cid.split("_").
\* summary.py 744: f"summary_map_chunk_{i:04d}"
MapCid(i) == <<"summary", "map", "chunk", Format04d(i)>>
\* summary.py 838: f"summary_reduce_L{level:02d}_{n:04d}"
ReduceCid(lv, n) == <<"summary", "reduce", <<"L">> \o Format02d(lv), Format04d(n)>>
\* summary.py 751, 858: int(cid.split("_")[-1])
CidIndex(cid) == ParseInt(cid[Len(cid)])

\* The elements of the set S of numbers in ascending order.
RECURSIVE Ascending(_)
Ascending(S) ==
    IF S = {} THEN <<>>
    ELSE LET m == CHOOSE x \in S : \A y \in S : x <= y
         IN <<m>> \o Ascending(S \ {m})
Reversed(q) == [k \in 1..Len(q) |-> q[Len(q) + 1 - k]]

\* What the service may answer to a map request about chunk text ch.
MapAnswer(ch) == Dict("raw", <<ch, BlankTitle>>, <<Slide(ch, TRUE)>>)
MapPayloads(ch) ==
    {PDict(MapAnswer(ch)), PDict(EmptyDict), PList(<<EmptyDict, MapAnswer(ch)>>),
     PList(<<MapAnswer(ch)>>), PText}

\* What the service may answer to the merge request with custom id cid: a
\* merged summary (its section carries the number of the group), {}, a list
\* whose first non-empty dict has no sections, or text.
ModelMerged(cid) ==
    Dict("raw", <<DigitOf(CidIndex(cid))>>, <<Slide("m", TRUE)>>)
ReducePayloads(cid) ==
    {PDict(ModelMerged(cid)), PDict(EmptyDict),
     PList(<<EmptyDict, Dict("raw", <<>>, <<>>)>>), PText}

AnswersTo(line) ==
    IF sum_fn = "summarize_chunks_batch" THEN MapPayloads(line.about)
    ELSE ReducePayloads(line.custom_id)

\* summary.py 587-661: the (custom_id, payload) lists _run_batch_multi may
\* return for the lines: any of them answered, in the order of the lines or
\* in the opposite order (by_id is keyed by the whole id, so one order is
\* enough for the tree).
ResultOrders(S) ==
    IF sum_fn = "summarize_chunks_batch"
    THEN {Ascending(S), Reversed(Ascending(S))} ELSE {Ascending(S)}
ResultLists(lines) ==
    UNION {UNION {{[k \in 1..Len(ord) |->
                      [custom_id |-> lines[ord[k]].custom_id, payload |-> f[ord[k]]]] :
                   ord \in ResultOrders(S)} :
                  f \in {g \in [S -> UNION {AnswersTo(lines[i]) : i \in S}] :
                           \A i \in S : g[i] \in AnswersTo(lines[i])}} :
           S \in SUBSET (1..Len(lines))}

\* ---- summarize_chunks_batch ----
\* summary.py 741-746: the request lines of the (index, chunk) pairs idxs.
MapLines(idxs) ==
    [k \in 1..Len(idxs) |-> [custom_id |-> MapCid(idxs[k]), about |-> map_chunks[idxs[k]]]]

\* summary.py 753: what _submit keeps of a payload.
MapKept(p) ==
    IF p.kind = "dict" THEN p.elems[1]
    ELSE IF p.kind = "list" /\ p.elems # <<>> THEN p.elems[1]
    ELSE EmptyDict

\* _submit correlating by position in the results instead of by custom id.
RECURSIVE SubmitStoreByPosition(_, _)
SubmitStoreByPosition(results, by_idx) ==
    IF results = <<>> THEN by_idx
    ELSE LET idx == Len(results)
         IN SubmitStoreByPosition(SubSeq(results, 1, Len(results) - 1),
                [i \in DOMAIN by_idx \cup {idx} |->
                    IF i = idx THEN MapKept(results[Len(results)].payload) ELSE by_idx[i]])

\* summary.py 748-754, 768: by_idx updated with the results of one _submit.
RECURSIVE SubmitStore(_, _)
SubmitStore(results, by_idx) ==
    IF results = <<>> THEN by_idx
    ELSE LET idx == CidIndex(Head(results).custom_id)
         IN SubmitStore(Tail(results),
                [i \in DOMAIN by_idx \cup {idx} |->
                    IF i = idx THEN MapKept(Head(results).payload) ELSE by_idx[i]])

\* A retry round that resubmits every chunk.
MissingEveryChunk(by_idx) == Ascending(1..Len(map_chunks))

\* summary.py 763: the indices whose result is missing or empty, in order.
MissingChunks(by_idx) ==
    Ascending({i \in 1..Len(map_chunks) : i \notin DOMAIN by_idx \/ ~Truthy(by_idx[i])})

\* summary.py 771-782: the output in input order.
MapOut(by_idx) ==
    [i \in 1..Len(map_chunks) |->
        IF i \in DOMAIN by_idx /\ Truthy(by_idx[i])
        THEN NormalizeSummaryShape(by_idx[i]) ELSE EmptyDict]

\* ---- merge_summaries_batch_tree ----
\* A micro-summary: a dict, or a value that is not a dict.
NonDict == [isdict |-> FALSE, d |-> EmptyDict]
Micro(d) == [isdict |-> TRUE, d |-> d]

\* summary.py 824: the usable micros, normalized.
RECURSIVE NormalizeInputs(_)
NormalizeInputs(ms) ==
    IF ms = <<>> THEN <<>>
    ELSE (IF Head(ms).isdict /\ Truthy(Head(ms).d)
          THEN <<NormalizeSummaryShape(Head(ms).d)>> ELSE <<>>)
         \o NormalizeInputs(Tail(ms))

SUMMARY_REDUCE_FANIN == 12
\* summary.py 825: fanin or SUMMARY_REDUCE_FANIN
EffectiveFanin(f) == IF f = 0 THEN SUMMARY_REDUCE_FANIN ELSE f

\* summary.py 833-841: a group is closed when it holds fanin members or the
\* list ends.
RECURSIVE Grouping(_, _, _, _)
Grouping(cur, i, group, f) ==
    IF i > Len(cur) THEN <<>>
    ELSE IF Len(group) + 1 = f \/ i = Len(cur)
    THEN <<[k \in 1..(Len(group) + 1) |->
              NormalizeSummaryShape(Append(group, cur[i])[k])]>>
         \o Grouping(cur, i + 1, <<>>, f)
    ELSE Grouping(cur, i + 1, Append(group, cur[i]), f)

\* summary.py 838-839: one request line per group.
ReduceLines(gs, lv) ==
    [n \in 1..Len(gs) |-> [custom_id |-> ReduceCid(lv, n), about |-> gs[n]]]

\* summary.py 845, 864-865: by_id[cid] = payload
RECURSIVE StoreById(_, _)
StoreById(results, by) ==
    IF results = <<>> THEN by
    ELSE StoreById(Tail(results),
            [c \in DOMAIN by \cup {Head(results).custom_id} |->
                IF c = Head(results).custom_id THEN Head(results).payload ELSE by[c]])

\* summary.py 849, 866: the requested ids whose payload is missing or falsy.
MissingIds(lines, by) ==
    SelectSeq(lines, LAMBDA ln : ln.custom_id \notin DOMAIN by
                                  \/ ~PayloadTruthy(by[ln.custom_id]))

\* summary.py 855-862: the retry lines of the missing ids.
RetryLines(missing, gs) ==
    [k \in 1..Len(missing) |->
        [custom_id |-> missing[k].custom_id,
         about |-> gs[CidIndex(missing[k].custom_id)]]]

\* summary.py 875-876: the first non-empty dict of a list payload, else {}.
RECURSIVE FirstNonEmpty(_)
FirstNonEmpty(ds) ==
    IF ds = <<>> THEN EmptyDict
    ELSE IF Truthy(Head(ds)) THEN Head(ds) ELSE FirstNonEmpty(Tail(ds))

\* summary.py 872-884: the validated payload of cid, or EmptyDict for None.
ValidatedPayload(by, cid) ==
    IF cid \notin DOMAIN by \/ by[cid].kind = "text" THEN EmptyDict
    ELSE LET d == IF by[cid].kind = "list" THEN FirstNonEmpty(by[cid].elems)
                  ELSE by[cid].elems[1]
         IN IF Truthy(d) /\ StudySummaryValid(NormalizeSummaryShape(d))
            THEN NormalizeSummaryShape(d) ELSE EmptyDict

\* The collection loop without the local merge fallback.
MergedValidOnly(gs, by, lv) ==
    LET valid == SelectSeq([n \in 1..Len(gs) |-> ValidatedPayload(by, ReduceCid(lv, n))],
                           Truthy)
    IN valid

\* summary.py 869-893: the merged list of one level, in group order.
Merged(gs, by, lv) ==
    [n \in 1..Len(gs) |->
        IF Truthy(ValidatedPayload(by, ReduceCid(lv, n)))
        THEN ValidatedPayload(by, ReduceCid(lv, n))
        ELSE NormalizeSummaryShape(LocalMergeAll(gs[n], EmptyDict))]

SumFns == {"summarize_chunks_batch", "merge_summaries_batch_tree"}
ChunkTexts == {"a", "b"}
MicroKinds ==
    {NonDict, Micro(EmptyDict),
     Micro(Dict("raw", <<"s">>, <<Slide("s", TRUE)>>)),
     Micro(Dict("raw", <<"t", BlankTitle>>, <<Slide("t", FALSE)>>))}
UsableMicros == {m \in MicroKinds : m.isdict /\ Truthy(m.d)}
\* Up to two micros of any kind, or three usable ones whose first two differ.
MicroLists ==
    SeqsUpTo(MicroKinds, 2) \cup {ms \in [1..3 -> UsableMicros] : ms[1] # ms[2]}
FaninValues == {-1, 0, 1, 2}
RetryValues == {0, 2}
NoResults == [i \in {} |-> EmptyDict]

SumIdle ==
    /\ sum_fn = "none"
    /\ map_chunks = <<>>
    /\ micros = <<>>
    /\ fanin = 0
    /\ RETRY_MISSING = 0
    /\ current = <<>>
    /\ groups = <<>>
    /\ level = 0
    /\ by_id = NoResults
    /\ attempts = 0
    /\ request_lines = <<>>
    /\ batch_calls = 0
    /\ sum_result = <<>>
    /\ sum_pc = "idle"
    /\ sum_error = "none"

SumInit ==
    /\ sum_fn \in SumFns
    /\ IF sum_fn = "summarize_chunks_batch"
       THEN /\ map_chunks \in SeqsUpTo(ChunkTexts, MaxSumChunks)
            /\ micros = <<>>
            /\ fanin = 0
       ELSE /\ map_chunks = <<>>
            /\ micros \in MicroLists
            /\ fanin \in FaninValues
    /\ RETRY_MISSING \in RetryValues
    /\ current = <<>>
    /\ groups = <<>>
    /\ level = 0
    /\ by_id = NoResults
    /\ attempts = 0
    /\ request_lines = <<>>
    /\ batch_calls = 0
    /\ sum_result = <<>>
    /\ sum_pc = "input"
    /\ sum_error = "none"

\* summary.py 735-737: no chunks, no job.
SummarizeNoChunks ==
    /\ sum_fn = "summarize_chunks_batch" /\ sum_pc = "input"
    /\ map_chunks = <<>>
    /\ sum_result' = <<>>
    /\ sum_pc' = "returned"
    /\ UNCHANGED <<sum_fn, map_chunks, micros, fanin, RETRY_MISSING, current, groups,
                   level, by_id, attempts, request_lines, batch_calls, sum_error>>
    /\ UNCHANGED <<shardVars, schedVars, mapVars, planVars, chunkVars, parseVars, asmVars, carveVars>>

\* summary.py 756-757: the initial _submit of every chunk.
SummarizeSubmit ==
    /\ sum_fn = "summarize_chunks_batch" /\ sum_pc = "input"
    /\ map_chunks # <<>>
    /\ request_lines' = MapLines(Ascending(1..Len(map_chunks)))
    /\ batch_calls' = batch_calls + 1
    /\ sum_pc' = "batch"
    /\ UNCHANGED <<sum_fn, map_chunks, micros, fanin, RETRY_MISSING, current, groups,
                   level, by_id, attempts, sum_result, sum_error>>
    /\ UNCHANGED <<shardVars, schedVars, mapVars, planVars, chunkVars, parseVars, asmVars, carveVars>>

\* summary.py 748-784: a _submit call ends.  While attempts are left and a
\* chunk is missing, the missing chunks are resubmitted; otherwise the output
\* is built and returned.
SummarizeBatchReturns ==
    /\ sum_fn = "summarize_chunks_batch" /\ sum_pc = "batch"
    /\ \E results \in ResultLists(request_lines) :
          /\ by_id' = SubmitStore(results, by_id)
          /\ IF attempts < RETRY_MISSING /\ MissingChunks(by_id') # <<>>
             THEN /\ attempts' = attempts + 1
                  /\ request_lines' = MapLines(MissingChunks(by_id'))
                  /\ batch_calls' = batch_calls + 1
                  /\ UNCHANGED <<sum_result, sum_pc>>
             ELSE /\ sum_result' = MapOut(by_id')
                  /\ sum_pc' = "returned"
                  /\ request_lines' = <<>>
                  /\ UNCHANGED <<attempts, batch_calls>>
    /\ UNCHANGED <<sum_fn, map_chunks, micros, fanin, RETRY_MISSING, current, groups,
                   level, sum_error>>
    /\ UNCHANGED <<shardVars, schedVars, mapVars, planVars, chunkVars, parseVars, asmVars, carveVars>>

\* summary.py 626-637: _run_batch_multi raises for a shard that did not
\* complete or has no output; nothing catches it.
BatchRaises ==
    /\ sum_pc = "batch"
    /\ sum_pc' = "raised"
    /\ sum_error' = "RuntimeError"
    /\ request_lines' = <<>>
    /\ by_id' = NoResults
    /\ UNCHANGED <<sum_fn, map_chunks, micros, fanin, RETRY_MISSING, current, groups,
                   level, attempts, batch_calls, sum_result>>
    /\ UNCHANGED <<shardVars, schedVars, mapVars, planVars, chunkVars, parseVars, asmVars, carveVars>>

\* summary.py 818-820: no micros, no job.
MergeNoMicros ==
    /\ sum_fn = "merge_summaries_batch_tree" /\ sum_pc = "input"
    /\ micros = <<>>
    /\ sum_result' = EmptyDict
    /\ sum_pc' = "returned"
    /\ UNCHANGED <<sum_fn, map_chunks, micros, fanin, RETRY_MISSING, current, groups,
                   level, by_id, attempts, request_lines, batch_calls, sum_error>>
    /\ UNCHANGED <<shardVars, schedVars, mapVars, planVars, chunkVars, parseVars, asmVars, carveVars>>

\* summary.py 823-827: the inputs are normalized and the fanin is fixed.
MergeStart ==
    /\ sum_fn = "merge_summaries_batch_tree" /\ sum_pc = "input"
    /\ micros # <<>>
    /\ current' = NormalizeInputs(micros)
    /\ fanin' = EffectiveFanin(fanin)
    /\ sum_pc' = "loop"
    /\ UNCHANGED <<sum_fn, map_chunks, micros, RETRY_MISSING, groups, level, by_id,
                   attempts, request_lines, batch_calls, sum_result, sum_error>>
    /\ UNCHANGED <<shardVars, schedVars, mapVars, planVars, chunkVars, parseVars, asmVars, carveVars>>

\* summary.py 829-848: a level starts: the groups are built and submitted.
MergeLevelSubmit ==
    /\ sum_fn = "merge_summaries_batch_tree" /\ sum_pc = "loop"
    /\ Len(current) > 1
    /\ level < MaxLevels
    /\ level' = level + 1
    /\ groups' = Grouping(current, 1, <<>>, fanin)
    /\ request_lines' = ReduceLines(groups', level')
    /\ by_id' = NoResults
    /\ attempts' = 0
    /\ batch_calls' = batch_calls + 1
    /\ sum_pc' = "batch"
    /\ UNCHANGED <<sum_fn, map_chunks, micros, fanin, RETRY_MISSING, current,
                   sum_result, sum_error>>
    /\ UNCHANGED <<shardVars, schedVars, mapVars, planVars, chunkVars, parseVars, asmVars, carveVars>>

\* summary.py 844-901: a _run_batch_multi call of the level ends.  While
\* ids are missing and attempts are left, the missing ids are resubmitted;
\* otherwise the level is collected into current.
MergeBatchReturns ==
    /\ sum_fn = "merge_summaries_batch_tree" /\ sum_pc = "batch"
    /\ \E results \in ResultLists(request_lines) :
          /\ by_id' = StoreById(results, by_id)
          /\ IF MissingIds(request_lines, by_id') # <<>> /\ attempts < RETRY_MISSING
             THEN /\ attempts' = attempts + 1
                  /\ request_lines' = RetryLines(MissingIds(request_lines, by_id'), groups)
                  /\ batch_calls' = batch_calls + 1
                  /\ UNCHANGED <<current, sum_pc>>
             ELSE /\ current' = Merged(groups, by_id', level)
                  /\ request_lines' = <<>>
                  /\ sum_pc' = "loop"
                  /\ UNCHANGED <<attempts, batch_calls>>
    /\ UNCHANGED <<sum_fn, map_chunks, micros, fanin, RETRY_MISSING, groups, level,
                   sum_result, sum_error>>
    /\ UNCHANGED <<shardVars, schedVars, mapVars, planVars, chunkVars, parseVars, asmVars, carveVars>>

\* summary.py 903-910: one summary is left and passes the schema.
MergeReturns ==
    /\ sum_fn = "merge_summaries_batch_tree" /\ sum_pc = "loop"
    /\ Len(current) = 1
    /\ StudySummaryValid(NormalizeSummaryShape(current[1]))
    /\ sum_result' = NormalizeSummaryShape(current[1])
    /\ sum_pc' = "returned"
    /\ UNCHANGED <<sum_fn, map_chunks, micros, fanin, RETRY_MISSING, current, groups,
                   level, by_id, attempts, request_lines, batch_calls, sum_error>>
    /\ UNCHANGED <<shardVars, schedVars, mapVars, planVars, chunkVars, parseVars, asmVars, carveVars>>

\* summary.py 903-908: current[0] of an empty list raises IndexError; a final
\* summary that fails the schema raises the validation error.
MergeRaises ==
    /\ sum_fn = "merge_summaries_batch_tree" /\ sum_pc = "loop"
    /\ Len(current) <= 1
    /\ IF current = <<>> THEN TRUE
       ELSE ~StudySummaryValid(NormalizeSummaryShape(current[1]))
    /\ sum_error' = IF current = <<>> THEN "IndexError" ELSE "ValidationError"
    /\ sum_pc' = "raised"
    /\ UNCHANGED <<sum_fn, map_chunks, micros, fanin, RETRY_MISSING, current, groups,
                   level, by_id, attempts, request_lines, batch_calls, sum_result>>
    /\ UNCHANGED <<shardVars, schedVars, mapVars, planVars, chunkVars, parseVars, asmVars, carveVars>>

\* ------------------------------------------------------------------------
\* Specifications
\* ------------------------------------------------------------------------
InitShard == ShardInit /\ SchedIdle /\ MapIdle /\ PlanIdle /\ ChunkIdle /\ ParseIdle /\ AsmIdle
    /\ CarveIdle
    /\ SumIdle
NextShard == CallShard
SpecShard == InitShard /\ [][NextShard]_vars

InitSched == SchedInit /\ ShardIdle /\ MapIdle /\ PlanIdle /\ ChunkIdle /\ ParseIdle /\ AsmIdle
    /\ CarveIdle
    /\ SumIdle
NextSched ==
    \/ PlanShardsEmpty
    \/ PlanShardsNone
    \/ PlanShards
    \/ SubmitRejected
    \/ SubmitShard
    \/ ServerStep
    \/ PollSleep
    \/ PollTimeout
    \/ Interrupt
    \/ ReturnNotCompleted
    \/ ReturnNoOutput
    \/ ReturnOutputNext
    \/ ReturnOutputLast
SpecSched == InitSched /\ [][NextSched]_vars

InitAudit == AuditInit /\ ShardIdle /\ SchedIdle /\ PlanIdle /\ ChunkIdle /\ ParseIdle /\ AsmIdle
    /\ CarveIdle
    /\ SumIdle
NextAudit == AuditFail \/ AuditPass
SpecAudit == InitAudit /\ [][NextAudit]_vars

InitChunk == ChunkInit /\ ShardIdle /\ SchedIdle /\ MapIdle /\ PlanIdle /\ ParseIdle /\ AsmIdle
    /\ CarveIdle
    /\ SumIdle
NextChunk == CallSemanticChunks
SpecChunk == InitChunk /\ [][NextChunk]_vars

InitPlan == PlanInit /\ ShardIdle /\ SchedIdle /\ ChunkIdle /\ ParseIdle /\ AsmIdle
    /\ CarveIdle
    /\ SumIdle
NextPlan == CallBuildQuestionsRequests
SpecPlan == InitPlan /\ [][NextPlan]_vars

InitParse ==
    ParseInit /\ ShardIdle /\ SchedIdle /\ MapIdle /\ PlanIdle /\ ChunkIdle /\ AsmIdle
    /\ CarveIdle
    /\ SumIdle
NextParse == ParseReturns \/ ParseRaises
SpecParse == InitParse /\ [][NextParse]_vars

InitAsm ==
    AsmInit /\ ShardIdle /\ SchedIdle /\ MapIdle /\ PlanIdle /\ ChunkIdle /\ ParseIdle
    /\ CarveIdle
    /\ SumIdle
NextAsm == ValidateAndFixReturns \/ ValidateAndFixRaises
SpecAsm == InitAsm /\ [][NextAsm]_vars

InitCarve ==
    CarveInit /\ ShardIdle /\ SchedIdle /\ MapIdle /\ PlanIdle /\ ChunkIdle /\ ParseIdle
    /\ AsmIdle
    /\ SumIdle
NextCarve == CallCarve
SpecCarve == InitCarve /\ [][NextCarve]_vars

InitSummary ==
    SumInit /\ ShardIdle /\ SchedIdle /\ MapIdle /\ PlanIdle /\ ChunkIdle /\ ParseIdle
    /\ AsmIdle /\ CarveIdle
NextSummary ==
    \/ SummarizeNoChunks
    \/ SummarizeSubmit
    \/ SummarizeBatchReturns
    \/ BatchRaises
    \/ MergeNoMicros
    \/ MergeStart
    \/ MergeLevelSubmit
    \/ MergeBatchReturns
    \/ MergeReturns
    \/ MergeRaises
SpecSummary == InitSummary /\ [][NextSummary]_vars

\* ------------------------------------------------------------------------
\* Claims about the scheduler (SpecSched)
\* ------------------------------------------------------------------------
HasDuplicateIds(rs) ==
    \E i, j \in 1..Len(rs) : i < j /\ rs[i].custom_id = rs[j].custom_id

\* C1: when wait_for_batch returns a shard's job with a status other than
\* "completed", the run raises: that shard is the last one submitted and the
\* final corpus is not written.
C1_ShardFailureAborts ==
    \A j \in 1..Len(jobs) :
        jobs[j].returned \notin {"none", "completed"} =>
            /\ j = Len(jobs)
            /\ pc = "raised"
            /\ error = "RuntimeError"
            /\ ~final_written

\* A run of three shards whose second job expired with a partial output file,
\* after the first shard's output was appended.
C1_Witness ==
    /\ Len(shards) = 3
    /\ Len(jobs) = 2
    /\ jobs[2].returned = "expired"
    /\ jobs[2].output_file_id
    /\ combined # <<>>
    /\ pc = "raised"

\* C2: shards are processed one at a time: every job but the last submitted
\* has been returned by wait_for_batch, and at most one submitted job has not
\* been observed in a terminal state.
C2_OneShardAtATime ==
    /\ \A j \in 1..(Len(jobs) - 1) : jobs[j].returned # "none"
    /\ Cardinality({j \in 1..Len(jobs) :
                       jobs[j].returned \notin TerminalStatuses}) <= 1

\* The second shard's job is in flight after the first was observed completed.
C2_Witness ==
    /\ Len(jobs) = 2
    /\ jobs[1].returned = "completed"
    /\ jobs[2].returned = "none"
    /\ jobs[2].status = "in_progress"
    /\ pc = "polling"

\* C3: wait_for_batch returns a job only in one of the terminal states
\* completed, failed, cancelled, expired.
C3_WaitReturnsOnlyTerminal ==
    \A j \in 1..Len(jobs) :
        jobs[j].returned # "none" => jobs[j].returned \in TerminalStatuses

\* C4: a planned request set in which two requests share a custom_id is
\* rejected before any shard of the set is submitted.
C4_DuplicateIdsRejectedBeforeSubmission ==
    (runner = "questions" /\ HasDuplicateIds(reqs)) => jobs = <<>>

\* C17: when a timeout greater than 0 has elapsed at a poll that finds the job
\* in a non-terminal state, wait_for_batch raises TimeoutError, having requested
\* a cancel exactly when CANCEL_ON_TIMEOUT is set; with timeout 0 it never
\* raises TimeoutError.
C17_TimeoutPolicy ==
    /\ error = "TimeoutError" =>
          /\ BATCH_TIMEOUT_SECONDS > 0
          /\ jobs[Len(jobs)].cancel_sent = CANCEL_ON_TIMEOUT
    /\ (/\ jobs # <<>>
        /\ pc # "polling"
        /\ error # "KeyboardInterrupt"
        /\ TimedOut(BATCH_TIMEOUT_SECONDS, elapsed)
        /\ jobs[Len(jobs)].returned \notin TerminalStatuses)
       => (error = "TimeoutError" /\ jobs[Len(jobs)].returned = "none")

\* C25: an interrupt while run_questions_batch or run_topicmap_batch polls a
\* job ends the run with the interrupt: a cancel is requested for the job in
\* flight exactly when CANCEL_ON_TIMEOUT is set and for no other job, and from
\* the interrupt on no shard is submitted and nothing is aggregated.
C25_InterruptPropagates ==
    [][(runner \in {"questions", "topicmap"} /\ error' = "KeyboardInterrupt") =>
          /\ pc' = "raised"
          /\ Len(jobs') = si'
          /\ jobs'[si'].cancel_sent = CANCEL_ON_TIMEOUT
          /\ jobs'[si'].returned = "none"
          /\ \A j \in 1..(si' - 1) : ~jobs'[j].cancel_sent
          /\ Len(jobs') = Len(jobs)
          /\ combined' = combined
          /\ final_written' = FALSE]_vars

\* The second shard of run_questions_batch was interrupted with the first
\* shard's output aggregated; the cancel was requested and the service has
\* cancelled the job since.
C25_Witness ==
    /\ runner = "questions"
    /\ error = "KeyboardInterrupt"
    /\ CANCEL_ON_TIMEOUT
    /\ Len(shards) = 3
    /\ si = 2
    /\ combined # <<>>
    /\ jobs[2].cancel_sent
    /\ jobs[2].status = "cancelled"

\* ------------------------------------------------------------------------
\* Claims about the sharding functions (SpecShard)
\* ------------------------------------------------------------------------
\* C7: every shard respects the count bound when max_per_shard > 0 and the
\* byte bound when max_bytes > 0 (unless it holds a single request), each
\* bound whether or not the other is disabled.
C7_BoundsIndependent ==
    shard_pc = "returned" =>
        \A k \in 1..Len(shard_result) :
            /\ max_per_shard > 0 => Len(shard_result[k]) <= max_per_shard
            /\ max_bytes > 0 =>
                  \/ ShardBytes(shard_result[k]) <= max_bytes
                  \/ Len(shard_result[k]) = 1

\* C8: the shards, concatenated in order, are exactly the request list.
C8_ShardsPartition ==
    shard_pc = "returned" => Concat(shard_result) = requests

\* Four requests split into three shards, one of them closed by the byte bound
\* with two requests in it.
C8_Witness ==
    /\ shard_pc = "returned"
    /\ Len(requests) = 4
    /\ Len(shard_result) = 3
    /\ \E k \in 1..3 : Len(shard_result[k]) = 2
    /\ max_bytes > 0

\* C29: every shard _shard_requests and _shard_lines return holds at least
\* one request.
C29_NoEmptyShard ==
    shard_pc = "returned" =>
        \A k \in 1..Len(shard_result) : shard_result[k] # <<>>

\* ------------------------------------------------------------------------
\* Claims about the coverage audit (SpecAudit)
\* ------------------------------------------------------------------------
\* The number of topics whose span holds index i.
CoverCount(i) ==
    Cardinality({k \in 1..Len(TopicsOf(topic_map)) :
                    /\ TopicsOf(topic_map)[k].chunk_span[1] <= i
                    /\ i <= TopicsOf(topic_map)[k].chunk_span[2]})

\* C5: a topic map the audit accepts covers every index of [0, N-1] exactly
\* once; a map with a gap or an overlap inside [0, N-1] is rejected.
C5_AcceptedMapsCoverExactlyOnce ==
    /\ tm_pc = "saved" => \A i \in 0..(total_chunks - 1) : CoverCount(i) = 1
    /\ (tm_pc # "parsed" /\ \E i \in 0..(total_chunks - 1) : CoverCount(i) # 1)
          => (tm_pc = "raised" /\ ~topicmap_json)

\* Three chunks covered by two topics in two units, accepted.
C5_Witness ==
    /\ tm_pc = "saved"
    /\ total_chunks = 3
    /\ Len(topic_map[1].topics) = 1
    /\ Len(topic_map[2].topics) = 1
    /\ topic_map[1].topics[1].chunk_span = <<0, 1>>
    /\ topic_map[2].topics[1].chunk_span = <<2, 2>>

\* C6: the audit fails for every map that has a span with start > end or a
\* span index outside [0, N-1].
C6_MalformedSpansRejected ==
    (/\ tm_pc # "parsed"
     /\ \E k \in 1..Len(TopicsOf(topic_map)) :
           LET sp == TopicsOf(topic_map)[k].chunk_span
           IN \/ sp[1] > sp[2]
              \/ sp[1] \notin 0..(total_chunks - 1)
              \/ sp[2] \notin 0..(total_chunks - 1))
    => tm_pc = "raised"

\* C18: topicmap.json is written only after the coverage audit passes: a run
\* whose audit reports a missing or an overlapping index raises and leaves the
\* file unwritten, a run whose audit passes has written it when it returns.
C18_SavedOnlyAfterAuditPasses ==
    LET a == AuditTopicmapCoverage(topic_map, total_chunks)
        passes == a.missing = {} /\ a.overlaps = {}
    IN /\ topicmap_json => passes
       /\ tm_pc = "raised" => (~passes /\ ~topicmap_json)
       /\ tm_pc = "saved" => (passes /\ topicmap_json)

\* A run that raised on a map with both a missing and an overlapping index.
C18_Witness ==
    LET a == AuditTopicmapCoverage(topic_map, total_chunks)
    IN /\ tm_pc = "raised"
       /\ a.missing # {}
       /\ a.overlaps # {}
       /\ ~topicmap_json

\* ------------------------------------------------------------------------
\* Claims about semantic_chunks (SpecChunk)
\* ------------------------------------------------------------------------
\* C9: the emitted chunks hold every block of the split phases exactly once,
\* in input order.
C9_ChunksHoldEveryBlock ==
    chunk_pc = "returned" => Concat(chunks) = Concat(Blocks(text))

\* c is one of the blocks the split phases made of the input.
IsBlock(c) == \E i \in 1..Len(Blocks(text)) : Blocks(text)[i] = c

\* C16: every chunk semantic_chunks returns has at most max_chars characters,
\* except a chunk that is a single block which is itself longer than max_chars.
C16_ChunkSizeBound ==
    chunk_pc = "returned" =>
        \A k \in 1..Len(chunks) :
            TextLen(chunks[k]) <= max_chars \/ IsBlock(chunks[k])

\* Two blocks packed into one chunk within the limit, followed by a chunk that
\* is one block longer than the limit.
C16_Witness ==
    /\ chunk_pc = "returned"
    /\ Len(chunks) = 2
    /\ ~IsBlock(chunks[1])
    /\ TextLen(chunks[1]) <= max_chars
    /\ IsBlock(chunks[2])
    /\ TextLen(chunks[2]) > max_chars

\* C28: in the blocks of the soft-split phase a heading line is the first line
\* of a block that holds more than the heading, and no block holds a '...'
\* separator line.
C28_HeadingNeverAlone ==
    chunk_pc = "returned" =>
        \A k \in 1..Len(Blocks(text)) :
            /\ ~(Len(Blocks(text)[k]) = 1 /\ HEADING(Blocks(text)[k][1]))
            /\ \A i \in 2..Len(Blocks(text)[k]) : ~HEADING(Blocks(text)[k][i])
            /\ \A i \in 1..Len(Blocks(text)[k]) : ~SEP_THREE(Blocks(text)[k][i])

\* ------------------------------------------------------------------------
\* Claims about the request planner (SpecPlan)
\* ------------------------------------------------------------------------
\* C10: no two requests returned by build_questions_requests_balanced share a
\* custom_id.
C10_PlannedIdsUnique ==
    plan_pc = "returned" =>
        \A i, j \in 1..Len(planned) :
            i < j => planned[i].custom_id # planned[j].custom_id

\* C20: the number of planned requests is topics x configured types x
\* configured multiplier, the expected total run_questions_batch computes.
C20_PlannedCountIsExpectedTotal ==
    plan_pc = "returned" =>
        Len(planned) = ExpectedTotal(topic_map, QUESTION_TYPES_PER_TOPIC,
                                     QUESTION_TYPE_MULTIPLIER)

\* ------------------------------------------------------------------------
\* Claims about parse_batch_output (SpecParse)
\* ------------------------------------------------------------------------
\* A record the claim calls bad: invalid JSON, JSON that is not an object, or
\* a response or body that is null or not an object.
BadRecord(rec) ==
    \/ rec.json \in {"invalid", "value"}
    \/ rec.json = "object" /\ rec.response \in {"null", "empty", "scalar"}
    \/ rec.json = "object" /\ rec.response = "object" /\ rec.body \in {"null", "scalar"}

RECURSIVE PayloadsOfGoodRecords(_)
PayloadsOfGoodRecords(lines) ==
    IF lines = <<>> THEN <<>>
    ELSE (IF BadRecord(Head(lines)) \/ ParseRecord(Head(lines)).raised THEN <<>>
          ELSE ParseRecord(Head(lines)).out)
         \o PayloadsOfGoodRecords(Tail(lines))

\* C12: parse_batch_output never aborts on a bad record: it returns, and the
\* list it returns holds the payloads of every other record, in file order.
C12_BadRecordSkipped ==
    parse_pc # "input" =>
        /\ parse_pc = "returned"
        /\ payloads = PayloadsOfGoodRecords(jsonl.lines)

\* The content blocks and the output_text a record gives the strategies.
UsableContent(rec) ==
    IF rec.json = "object" /\ rec.response = "object" /\ rec.body = "object"
       /\ rec.output = "list"
    THEN rec.content ELSE <<>>
UsableOutputText(rec) ==
    IF rec.json = "object" /\ rec.response = "object" /\ rec.body = "object"
    THEN rec.output_text ELSE NoText

\* A structured JSON block, and a text block that yields a value.
IsStructured(c) == c.dict /\ StructuredPayload(c) # "None"
IsParsedText(c) == c.dict /\ TryParseJsonString(c.text) # "None"

\* What the priority order gives for one record.
ByPriority(rec) ==
    LET structured == SelectSeq(UsableContent(rec), IsStructured)
        texts == SelectSeq(UsableContent(rec), IsParsedText)
    IN IF structured # <<>>
       THEN [i \in 1..Len(structured) |-> StructuredPayload(structured[i])]
       ELSE IF TryParseJsonString(UsableOutputText(rec)) # "None"
       THEN <<TryParseJsonString(UsableOutputText(rec))>>
       ELSE [i \in 1..Len(texts) |-> TryParseJsonString(texts[i].text)]

RECURSIVE ByPriorityAll(_)
ByPriorityAll(lines) ==
    IF lines = <<>> THEN <<>>
    ELSE ByPriority(Head(lines)) \o ByPriorityAll(Tail(lines))

C11_NoLeakAfterSoftening ==
    asm_pc = "returned" =>
        \A k \in 1..Len(fixed) : ContextLeakCheck(fixed[k]) = <<>>

\* sub holds elements of full, in the order of full.
RECURSIVE InOrder(_, _)
InOrder(sub, full) ==
    IF sub = <<>> THEN TRUE
    ELSE IF full = <<>> THEN FALSE
    ELSE IF Head(sub) = Head(full) THEN InOrder(Tail(sub), Tail(full))
    ELSE InOrder(sub, Tail(full))

QuestionsOf(its) == [k \in 1..Len(its) |-> its[k].question_rich]

\* C13: validate_and_fix returns for every list of items, never raising, and
\* what it returns is the items it kept in their original order.
C13_ItemFailureLocal ==
    asm_pc # "input" =>
        /\ asm_pc = "returned"
        /\ InOrder(QuestionsOf(fixed), QuestionsOf(items))

\* C14: every mcq or msq item validate_and_fix returns has five choices, with
\* the ids A, B, C, D, E in that order.
C14_FiveChoicesAToE ==
    asm_pc = "returned" =>
        \A k \in 1..Len(fixed) :
            fixed[k].type \in {mcq, msq} =>
                [i \in 1..Len(fixed[k].choices) |-> fixed[k].choices[i].id] = ChoiceIds

\* An mcq item that arrived with two choices is returned.
C14_Witness ==
    /\ asm_pc = "returned"
    /\ Len(items) = 1
    /\ Len(fixed) = 1
    /\ fixed[1].type = mcq
    /\ Len(items[1].choices) = 2

\* C15: every mcq item validate_and_fix returns has exactly one choice marked
\* correct and every msq item two or three, however many arrived marked.
C15_CorrectCount ==
    asm_pc = "returned" =>
        \A k \in 1..Len(fixed) :
            /\ fixed[k].type = mcq => CorrectCount(fixed[k].choices) = 1
            /\ fixed[k].type = msq => CorrectCount(fixed[k].choices) \in {2, 3}

\* An msq item that arrived with five choices marked correct is returned.
C15_Witness ==
    /\ asm_pc = "returned"
    /\ Len(items) = 1
    /\ Len(fixed) = 1
    /\ fixed[1].type = msq
    /\ CorrectCount(items[1].choices) = 5

\* C19: the ids of the items validate_and_fix returns are pairwise distinct.
C19_IdsDistinct ==
    asm_pc = "returned" =>
        \A i, j \in 1..Len(fixed) : i < j => fixed[i].id # fixed[j].id

\* An item without a topic keeps the id that the convention then gives to the
\* item after it; both are returned, the second under a drawn id.
C19_Witness ==
    /\ asm_pc = "returned"
    /\ Len(items) = 2
    /\ Len(fixed) = 2
    /\ Strip(items[1].topic_id) = <<>>
    /\ items[1].id = ItemId(<<"t">>, mcq, 1)
    /\ Strip(items[2].topic_id) = <<"t">>
    /\ items[2].type = mcq
    /\ fixed[1].id = items[1].id
    /\ fixed[2].id \in UuidIds

\* ------------------------------------------------------------------------
\* Claims about the carving helper (SpecCarve)
\* ------------------------------------------------------------------------
\* The nesting depth after the first i characters; a closing brace at depth
\* zero opens nothing and closes nothing.
RECURSIVE Depth(_, _)
Depth(s, i) ==
    IF i = 0 THEN 0
    ELSE IF s[i] = "{" THEN Depth(s, i - 1) + 1
    ELSE IF s[i] = "}" /\ Depth(s, i - 1) > 0 THEN Depth(s, i - 1) - 1
    ELSE Depth(s, i - 1)

\* The balanced top-level spans of s, as <<first, last>> index pairs.
TopSpans(s) ==
    {ab \in (1..Len(s)) \X (1..Len(s)) :
        /\ ab[1] < ab[2]
        /\ s[ab[1]] = "{" /\ Depth(s, ab[1] - 1) = 0
        /\ Depth(s, ab[2]) = 0
        /\ \A k \in ab[1]..(ab[2] - 1) : Depth(s, k) > 0}

\* C27: the helper returns a longest balanced top-level span (the longest
\* of them when there are several), and None when there is no such span.
C27_CarveLongestSpan ==
    carve_pc = "returned" =>
        IF TopSpans(carve_text) = {} THEN carved = NoSpan
        ELSE \E ab \in TopSpans(carve_text) :
                /\ carved = SubSeq(carve_text, ab[1], ab[2])
                /\ \A cd \in TopSpans(carve_text) :
                      cd[2] - cd[1] <= ab[2] - ab[1]

\* What the scan returns: the top-level span closed last.
CarveReturnsLastSpan ==
    carve_pc = "returned" =>
        IF TopSpans(carve_text) = {} THEN carved = NoSpan
        ELSE \E ab \in TopSpans(carve_text) :
                /\ carved = SubSeq(carve_text, ab[1], ab[2])
                /\ \A cd \in TopSpans(carve_text) : cd[2] <= ab[2]

\* ------------------------------------------------------------------------
\* Claims about the summary map and the tree reduce (SpecSummary)
\* ------------------------------------------------------------------------
\* The non-empty dicts the service can have answered about chunk text ch.
ResultsAbout(ch) == {MapKept(p) : p \in MapPayloads(ch)} \ {EmptyDict}

\* C22: summarize_chunks_batch returns one element per chunk, in input
\* order: element i is the normalized result of a response to the request
\* for chunk i, or {} when no non-empty result was obtained for chunk i.
C22_AlignedByCustomId ==
    (sum_fn = "summarize_chunks_batch" /\ sum_pc = "returned") =>
        /\ Len(sum_result) = Len(map_chunks)
        /\ \A i \in 1..Len(map_chunks) :
              IF i \in DOMAIN by_id /\ Truthy(by_id[i])
              THEN /\ by_id[i] \in ResultsAbout(map_chunks[i])
                   /\ sum_result[i] = NormalizeSummaryShape(by_id[i])
              ELSE sum_result[i] = EmptyDict

\* Two different chunks and two retry rounds: the first chunk has its
\* summary, the second is left without a result.
C22_Witness ==
    /\ sum_fn = "summarize_chunks_batch" /\ sum_pc = "returned"
    /\ Len(map_chunks) = 2 /\ map_chunks[1] # map_chunks[2]
    /\ attempts = 2
    /\ sum_result[1] = Dict("1.0", <<map_chunks[1]>>, <<Slide(map_chunks[1], TRUE)>>)
    /\ sum_result[2] = EmptyDict

\* The indices of all requests of the running call, and of those whose
\* stored result is missing or empty.
AllRequestIndices ==
    IF sum_fn = "summarize_chunks_batch" THEN 1..Len(map_chunks) ELSE 1..Len(groups)
StillMissing(by) ==
    IF sum_fn = "summarize_chunks_batch"
    THEN {i \in AllRequestIndices : i \notin DOMAIN by \/ ~Truthy(by[i])}
    ELSE {i \in AllRequestIndices :
             \/ ReduceCid(level, i) \notin DOMAIN by
             \/ ~PayloadTruthy(by[ReduceCid(level, i)])}

\* C23: a retry round resubmits exactly the requests whose result is still
\* missing or empty, each once, and at most the configured number of rounds
\* is made, in summarize_chunks_batch and in every level of the tree reduce.
C23_RetryTargeted ==
    [][attempts' = attempts + 1 =>
          /\ attempts' <= RETRY_MISSING
          /\ Len(request_lines') = Cardinality(StillMissing(by_id'))
          /\ {CidIndex(request_lines'[k].custom_id) : k \in 1..Len(request_lines')}
                = StillMissing(by_id')]_vars

\* The last allowed retry round of a level resubmits one group of two.
C23_Witness ==
    /\ sum_fn = "merge_summaries_batch_tree" /\ sum_pc = "batch"
    /\ RETRY_MISSING = 2 /\ attempts = 2
    /\ Len(groups) = 2 /\ Len(request_lines) = 1
    /\ \E c \in DOMAIN by_id : PayloadTruthy(by_id[c])

\* C21: every completed reduce level leaves strictly fewer summaries than
\* it received, so the reduce ends with a single summary.
C21_LevelShrinks ==
    [][(sum_fn = "merge_summaries_batch_tree" /\ sum_pc = "batch" /\ sum_pc' = "loop")
          => Len(current') < Len(current)]_vars

\* C24: a collected level has one output per group, in group order: the
\* validated summary the service merged for the group, or the local merge
\* of the members of the group.
C24_CoverageKept ==
    [][(sum_fn = "merge_summaries_batch_tree" /\ sum_pc = "batch" /\ sum_pc' = "loop") =>
          /\ Len(current') = Len(groups)
          /\ \A n \in 1..Len(groups) :
                \/ /\ ReduceCid(level, n) \in DOMAIN by_id'
                   /\ \E k \in 1..Len(by_id'[ReduceCid(level, n)].elems) :
                         current'[n] =
                            NormalizeSummaryShape(by_id'[ReduceCid(level, n)].elems[k])
                   /\ StudySummaryValid(current'[n])
                \/ current'[n] =
                      NormalizeSummaryShape(LocalMergeAll(groups[n], EmptyDict))]_vars

\* A level of two groups, the first merged by the service, the second of one
\* member merged locally.
C24_Witness ==
    /\ sum_fn = "merge_summaries_batch_tree" /\ sum_pc = "loop"
    /\ level = 1 /\ Len(groups) = 2 /\ Len(groups[1]) = 2 /\ Len(current) = 2
    /\ current[1] = Dict("1.0", <<"1">>, <<Slide("m", TRUE)>>)
    /\ current[2] = NormalizeSummaryShape(groups[2][1])

\* C30: for a list without a usable micro-summary (empty, or holding only
\* empty dicts and non-dicts) the reduce returns {} and neither submits a
\* job nor raises.
C30_EmptyInputReturnsEmpty ==
    (/\ sum_fn = "merge_summaries_batch_tree"
     /\ NormalizeInputs(micros) = <<>>
     /\ sum_pc \notin {"input", "loop"}) =>
        /\ sum_pc = "returned"
        /\ sum_result = EmptyDict
        /\ batch_calls = 0
====
